---- MODULE Spec2Model ----
(***************************************************************************)
(* Match engine of tartantrips: the match-request route                    *)
(* (src/app/api/match-requests/route.js) over the rows of the "trips"      *)
(* table.  Each row carries six parallel match_email_i / match_status_i    *)
(* columns; the route's POST handler reads two rows, checks the caller,    *)
(* and writes slot columns of those rows and of partner rows.              *)
(***************************************************************************)
EXTENDS Integers, Sequences, FiniteSets, TLC

VARIABLES
    trips,   \* the rows of the trips table, by id
    pre,     \* history: the rows before the observed call
    last,    \* history: the observed call and the status of its response
    calls,   \* number of calls answered ok so far
    trip_status,              \* column trip_status of the trips rows, by id
    created_at,               \* column created_at, by id; NoTime: not inserted yet
    baseline_match_check_at,  \* column baseline_match_check_at, by id
    match_notifications,      \* the rows of the match_notifications table
    now,                      \* the clock that new Date() reads
    checks,                   \* the notification checks in progress
    sent,                     \* history: emails delivered, per (trip, matched trip)
    first_baseline,           \* history: the first baseline written, by id
    view                      \* what the pages have computed and show

matchVars == <<trips, pre, last, calls>>

notifyVars == <<created_at, baseline_match_check_at, match_notifications, now,
                checks, sent, first_baseline>>

vars == <<trips, pre, last, calls, trip_status, created_at, baseline_match_check_at,
          match_notifications, now, checks, sent, first_baseline, view>>

(* ---------------------------------------------------------------------- *)
(* Bounds of the model                                                     *)
(* ---------------------------------------------------------------------- *)

\* number of rows in the trips table; row i belongs to user i
NumTrips == 3

\* number of route calls answered ok in one behaviour
MaxCalls == 3

\* number of route calls answered ok in one behaviour of the crowded store
CapCalls == 2

\* number of route calls answered ok in one behaviour of raw requests
ApiCalls == 2

\* number of notification checks started in one behaviour
MaxStarts == 2

\* number of notification checks started in one behaviour of few checks
FewStarts == 1

\* the last reading of the clock
MaxTime == 1

\* number of calls, status changes and edits in one behaviour of the status pages
StatusCalls == 3

\* the last hour at which a window of the compatibility rows starts or ends
MaxHour == 2

\* number of rows the trip form can have saved
FormRows == 1

\* number of rows the pages that save trips can have saved together
SaveRows == 2

\* number of rows in the table when the trips page lists the candidates
OrderRows == 4

\* completed calls on top of a pending pool join
VoteCalls == 1

\* calls of the match-request route that run at the same time
RaceCalls == 2

\* calls of the match-request route among the trips of which one is deleted
PeerCalls == 2

(* ---------------------------------------------------------------------- *)
(* Constants of the program                                                *)
(* ---------------------------------------------------------------------- *)

\* a row with a seventh match_email / match_status column pair
SevenSlots == 6 + 1

\* matchEmailFields / matchStatusFields have six entries, indexed 0..5
NumSlots == 6

matchEmailFields == 0 .. (NumSlots - 1)

matchStatusFields == matchEmailFields

\* SQL NULL / JavaScript null
NULL == "null"

\* findIndex's "not found"
NotFound == -1

\* a timestamp column that is null
NoTime == -1

\* the invocations of the notification check: two run at the same time
Procs == {1, 2}

\* no check in progress
Idle == [pc |-> "idle"]

Statuses == {"request_sent", "request_received", "partner_approval_needed", "matched"}

Actions == {"request", "withdraw", "accept", "deny", "remove"}

TripIds == 1 .. NumTrips

\* the user_email of row i
EmailOf == <<"a@cmu", "b@cmu", "c@cmu", "d@cmu", "e@cmu", "f@cmu", "g@cmu", "h@cmu",
            "i@cmu", "j@cmu">>

\* authenticated identities: the owners of the rows
Emails == {EmailOf[i] : i \in TripIds}


(* ---------------------------------------------------------------------- *)
(* Slot ledger helpers                                                     *)
(* ---------------------------------------------------------------------- *)

Min(S) == CHOOSE x \in S : \A y \in S : x <= y

\* Array.prototype.findIndex over the six columns: the first index among
\* those that satisfy the callback, or -1
findIndex(hits) == IF hits = {} THEN NotFound ELSE Min(hits)

getSlotForEmail(trip, email) ==
    findIndex({i \in matchEmailFields : trip.match_email[i] = email})

\* !trip[field]: the column is null
getEmptySlot(trip) ==
    findIndex({i \in matchEmailFields : trip.match_email[i] = NULL})

\* the emails of the slots whose status is "matched" (null emails dropped)
getMatchedPartners(sourceTrip) ==
    {sourceTrip.match_email[i] : i \in {j \in matchEmailFields :
        sourceTrip.match_status[j] = "matched"}} \ {NULL}

hasStatusWithEmail(sourceTrip, email, status) ==
    LET slot == getSlotForEmail(sourceTrip, email)
    IN  IF slot = NotFound THEN FALSE
        ELSE sourceTrip.match_status[slot] = status

(* ---------------------------------------------------------------------- *)
(* Record store                                                            *)
(* ---------------------------------------------------------------------- *)

\* marks a column that an update object does not mention
KEEP == "keep"

\* supabaseAdmin.from("trips").update(updates).eq("id", rowId): writes the
\* email and/or status column of one slot of one row
updateTrip(db, rowId, slot, email, status) ==
    [db EXCEPT ![rowId] =
        [@ EXCEPT !.match_email  = IF email = KEEP THEN @
                                   ELSE [@ EXCEPT ![slot] = email],
                  !.match_status = [@ EXCEPT ![slot] = status]]]

\* update with { email_i: null, status_i: null }
clearSlot(db, rowId, slot) == updateTrip(db, rowId, slot, NULL, NULL)

\* update with { status_i: status } only
setStatus(db, rowId, slot, status) == updateTrip(db, rowId, slot, KEEP, status)

\* .in("user_email", emails).eq("direction", d).eq("flight_date", f)
selectPartnerTrips(db, emails, direction, flight_date) ==
    {t \in DOMAIN db : /\ db[t].user_email \in emails
                     /\ db[t].direction = direction
                     /\ db[t].flight_date = flight_date}

\* .eq("direction", d).eq("flight_date", f)
selectSameDay(db, direction, flight_date) ==
    {t \in DOMAIN db : /\ db[t].direction = direction
                     /\ db[t].flight_date = flight_date}

Response(code, db) == [code |-> code, db |-> db]

(* ---------------------------------------------------------------------- *)
(* POST /api/match-requests: the five actions.  Each operator yields the   *)
(* set of responses the handler can give from store contents db (more     *)
(* than one only where the handler takes the first row of an unordered    *)
(* select).  trip / matchTrip are the rows read at the start of the call.  *)
(* ---------------------------------------------------------------------- *)

\* request that takes the first column of each row instead of an empty one
doRequestFirstColumn(db, trip, matchTrip, requesterSlot, matchSlot) ==
    LET db1 == updateTrip(db, trip.id, 0, matchTrip.user_email, "request_sent")
        db2 == updateTrip(db1, matchTrip.id, 0, trip.user_email, "request_received")
    IN  {Response(200, db2)}

\* lines 134-159
doRequest(db, trip, matchTrip, requesterSlot, matchSlot) ==
    LET slotA == IF requesterSlot = NotFound THEN getEmptySlot(trip) ELSE requesterSlot
        slotB == IF matchSlot = NotFound THEN getEmptySlot(matchTrip) ELSE matchSlot
    IN  IF slotA = NotFound \/ slotB = NotFound
        THEN {Response(400, db)}
        ELSE LET db1 == updateTrip(db, trip.id, slotA, matchTrip.user_email, "request_sent")
                 db2 == updateTrip(db1, matchTrip.id, slotB, trip.user_email, "request_received")
             IN  {Response(200, db2)}

\* a cascade that leaves the partner rows as they are
keepPartnerApprovals(db, partnerTrips, email) == db

\* the loops at lines 185-196 and 364-375: every selected partner row whose
\* slot toward email is partner_approval_needed has that slot cleared
clearPartnerApprovals(db, partnerTrips, email) ==
    [t \in DOMAIN db |->
        LET partnerSlot == getSlotForEmail(db[t], email)
        IN  IF /\ t \in partnerTrips
               /\ partnerSlot # NotFound
               /\ db[t].match_status[partnerSlot] = "partner_approval_needed"
            THEN [db[t] EXCEPT !.match_email[partnerSlot] = NULL,
                               !.match_status[partnerSlot] = NULL]
            ELSE db[t]]

\* withdraw that clears the caller's slot before it looks for the mirror
doWithdrawClearFirst(db, trip, matchTrip, requesterSlot, matchSlot) ==
    IF requesterSlot = NotFound
    THEN {Response(404, db)}
    ELSE IF matchSlot = NotFound
    THEN {Response(404, clearSlot(db, trip.id, requesterSlot))}
    ELSE {Response(200, clearSlot(clearSlot(db, trip.id, requesterSlot),
                                  matchTrip.id, matchSlot))}

\* lines 161-203
doWithdraw(db, trip, matchTrip, requesterSlot, matchSlot) ==
    IF requesterSlot = NotFound \/ matchSlot = NotFound
    THEN {Response(404, db)}
    ELSE LET db1 == clearSlot(db, trip.id, requesterSlot)
             db2 == clearSlot(db1, matchTrip.id, matchSlot)
             matchedPartners == getMatchedPartners(trip)
         IN  IF matchedPartners # {}
             THEN LET partnerTrips == selectPartnerTrips(db2, matchedPartners,
                                          trip.direction, trip.flight_date)
                  IN  {Response(200, clearPartnerApprovals(db2, partnerTrips,
                                                           matchTrip.user_email))}
             ELSE {Response(200, db2)}

\* the candidates of the find at lines 227-232 and 332-337
requesterCandidates(db, trip, matchTrip) ==
    {c \in selectSameDay(db, trip.direction, trip.flight_date) :
        /\ hasStatusWithEmail(db[c], trip.user_email, "matched")
        /\ hasStatusWithEmail(db[c], matchTrip.user_email, "partner_approval_needed")}

\* lines 238-267: the vote of one pool member once the requester row is found
resolveApproval(db1, requesterTrip, matchTrip) ==
    LET requesterPartners == getMatchedPartners(requesterTrip)
        partnerTrips == selectPartnerTrips(db1, requesterPartners,
                            requesterTrip.direction, requesterTrip.flight_date)
        pendingApprovals ==
            {p \in partnerTrips :
                LET partnerSlot == getSlotForEmail(db1[p], matchTrip.user_email)
                IN  /\ partnerSlot # NotFound
                    /\ db1[p].match_status[partnerSlot] = "partner_approval_needed"}
        requesterSlotWithCandidate == getSlotForEmail(requesterTrip, matchTrip.user_email)
        candidateSlotWithRequester == getSlotForEmail(matchTrip, requesterTrip.user_email)
    IN  IF /\ pendingApprovals = {}
           /\ requesterSlotWithCandidate # NotFound
           /\ candidateSlotWithRequester # NotFound
        THEN setStatus(setStatus(db1, requesterTrip.id, requesterSlotWithCandidate, "matched"),
                       matchTrip.id, candidateSlotWithRequester, "matched")
        ELSE db1

\* lines 274-299: the pool path of accept
propagateApproval(db2, requesterPartners, trip, matchTrip) ==
    LET partnerTrips == selectPartnerTrips(db2, requesterPartners,
                            matchTrip.direction, matchTrip.flight_date)
    IN  [t \in DOMAIN db2 |->
            LET partnerSlot == getSlotForEmail(db2[t], trip.user_email)
                emptySlot == IF partnerSlot = NotFound THEN getEmptySlot(db2[t])
                             ELSE partnerSlot
            IN  IF t \in partnerTrips /\ emptySlot # NotFound
                THEN [db2[t] EXCEPT !.match_email[emptySlot] = trip.user_email,
                                    !.match_status[emptySlot] = "partner_approval_needed"]
                ELSE db2[t]]

\* lines 205-308
doAccept(db, trip, matchTrip, requesterSlot, matchSlot) ==
    IF requesterSlot = NotFound
    THEN {Response(404, db)}
    ELSE LET currentStatus == trip.match_status[requesterSlot]
         IN  IF /\ currentStatus = "partner_approval_needed"
                /\ ~hasStatusWithEmail(matchTrip, trip.user_email, "partner_approval_needed")
             THEN LET db1 == clearSlot(db, trip.id, requesterSlot)
                      candidates == requesterCandidates(db1, trip, matchTrip)
                  IN  IF candidates = {}
                      THEN {Response(200, db1)}
                      ELSE {Response(200, resolveApproval(db1, db1[c], matchTrip)) :
                                c \in candidates}
             ELSE IF matchSlot = NotFound
             THEN {Response(404, db)}
             ELSE LET requesterPartners == getMatchedPartners(matchTrip)
                  IN  IF requesterPartners # {}
                      THEN LET db1 == setStatus(db, trip.id, requesterSlot,
                                                "partner_approval_needed")
                               db2 == setStatus(db1, matchTrip.id, matchSlot,
                                                "partner_approval_needed")
                           IN  {Response(200, propagateApproval(db2, requesterPartners,
                                                                trip, matchTrip))}
                      ELSE {Response(200,
                              setStatus(setStatus(db, trip.id, requesterSlot, "matched"),
                                        matchTrip.id, matchSlot, "matched"))}

\* lines 339-376: a deny vote rolls the pending join back
rollbackJoin(db1, requesterTrip, matchTrip) ==
    LET requesterSlotWithCandidate == getSlotForEmail(requesterTrip, matchTrip.user_email)
        candidateSlotWithRequester == getSlotForEmail(matchTrip, requesterTrip.user_email)
        db2 == IF requesterSlotWithCandidate # NotFound
               THEN clearSlot(db1, requesterTrip.id, requesterSlotWithCandidate)
               ELSE db1
        db3 == IF candidateSlotWithRequester # NotFound
               THEN clearSlot(db2, matchTrip.id, candidateSlotWithRequester)
               ELSE db2
        requesterPartners == getMatchedPartners(requesterTrip)
        partnerTrips == selectPartnerTrips(db3, requesterPartners,
                            requesterTrip.direction, requesterTrip.flight_date)
    IN  clearPartnerApprovals(db3, partnerTrips, matchTrip.user_email)

\* lines 310-398
doDeny(db, trip, matchTrip, requesterSlot, matchSlot) ==
    IF requesterSlot = NotFound
    THEN {Response(404, db)}
    ELSE LET currentStatus == trip.match_status[requesterSlot]
         IN  IF /\ currentStatus = "partner_approval_needed"
                /\ ~hasStatusWithEmail(matchTrip, trip.user_email, "partner_approval_needed")
             THEN LET db1 == clearSlot(db, trip.id, requesterSlot)
                      candidates == requesterCandidates(db1, trip, matchTrip)
                  IN  IF candidates = {}
                      THEN {Response(200, db1)}
                      ELSE {Response(200, rollbackJoin(db1, db1[c], matchTrip)) :
                                c \in candidates}
             ELSE IF matchSlot = NotFound
             THEN {Response(404, db)}
             ELSE {Response(200, clearSlot(clearSlot(db, trip.id, requesterSlot),
                                           matchTrip.id, matchSlot))}

\* remove that asks for the caller's slot only and clears what it finds
doRemoveOneSided(db, trip, matchTrip, requesterSlot, matchSlot) ==
    IF requesterSlot = NotFound
    THEN {Response(404, db)}
    ELSE LET db1 == clearSlot(db, trip.id, requesterSlot)
         IN  {Response(200, IF matchSlot = NotFound THEN db1
                            ELSE clearSlot(db1, matchTrip.id, matchSlot))}

\* lines 400-419
doRemove(db, trip, matchTrip, requesterSlot, matchSlot) ==
    IF requesterSlot = NotFound \/ matchSlot = NotFound
    THEN {Response(404, db)}
    ELSE {Response(200, clearSlot(clearSlot(db, trip.id, requesterSlot),
                                  matchTrip.id, matchSlot))}

\* authorized, were remove's either-owner rule applied to every action
authorizedEitherOwner(action, requesterEmail, trip, matchTrip) ==
    trip.user_email = requesterEmail \/ matchTrip.user_email = requesterEmail

\* lines 86-105: may this caller run this action on (trip, matchTrip)?  An
\* action that is none of the five passes here and is refused at line 421.
authorized(action, requesterEmail, trip, matchTrip) ==
    LET ownsTrip == trip.user_email = requesterEmail
        ownsMatchTrip == matchTrip.user_email = requesterEmail
    IN  IF action \in {"request", "withdraw", "accept", "deny"} THEN ownsTrip
        ELSE IF action = "remove" THEN ownsTrip \/ ownsMatchTrip
        ELSE TRUE

\* lines 60-132 and the dispatch on action: the handler for an authenticated
\* caller and a complete body.  The select .in("id", [tripId, matchedTripId])
\* yields two rows only for two different ids that are both stored.
POST(db, requesterEmail, action, tripId, matchedTripId) ==
    IF Cardinality({tripId, matchedTripId} \cap DOMAIN db) # 2
    THEN {Response(404, db)}
    ELSE LET trip == db[tripId]
             matchTrip == db[matchedTripId]
             requesterSlot == getSlotForEmail(trip, matchTrip.user_email)
             matchSlot == getSlotForEmail(matchTrip, trip.user_email)
         IN  IF ~authorized(action, requesterEmail, trip, matchTrip)
             THEN {Response(403, db)}
             ELSE CASE action = "request"  -> doRequest(db, trip, matchTrip, requesterSlot, matchSlot)
                    [] action = "withdraw" -> doWithdraw(db, trip, matchTrip, requesterSlot, matchSlot)
                    [] action = "accept"   -> doAccept(db, trip, matchTrip, requesterSlot, matchSlot)
                    [] action = "deny"     -> doDeny(db, trip, matchTrip, requesterSlot, matchSlot)
                    [] action = "remove"   -> doRemove(db, trip, matchTrip, requesterSlot, matchSlot)
                    [] OTHER               -> {Response(400, db)}

\* the Authorization header carries no token (line 46)
NoToken == ""

\* a falsy tripId or matchedTripId of the body (line 56)
Missing == 0

\* the bearer token of the session of the owner of row i
TokenOf == <<"session-a", "session-b", "session-c", "session-d", "session-e",
             "session-f", "session-g", "session-h", "session-i", "session-j">>

\* supabaseAdmin.auth.getUser(token): the email of the session's user, or
\* none for a token that is no session
getUser(token) ==
    IF \E i \in DOMAIN TokenOf : TokenOf[i] = token
    THEN EmailOf[CHOOSE i \in DOMAIN TokenOf : TokenOf[i] = token]
    ELSE NULL

\* lines 39-58 and then the rest of the handler: a request with its token
\* (the Authorization header without "Bearer") and its JSON body
handleRequest(db, token, action, tripId, matchedTripId) ==
    IF token = NoToken
    THEN {Response(401, db)}
    ELSE IF getUser(token) = NULL
    THEN {Response(401, db)}
    ELSE IF action = NULL \/ tripId = Missing \/ matchedTripId = Missing
    THEN {Response(400, db)}
    ELSE POST(db, getUser(token), action, tripId, matchedTripId)

(* ---------------------------------------------------------------------- *)
(* State machine                                                           *)
(* ---------------------------------------------------------------------- *)

\* A freshly inserted row has all twelve match columns null.  All rows are
\* departures of one flight date.
NewTrip(id) ==
    [id |-> id, user_email |-> EmailOf[id], direction |-> "Departure",
     flight_date |-> "2024-05-10",
     match_email |-> [i \in matchEmailFields |-> NULL],
     match_status |-> [i \in matchStatusFields |-> NULL]]

NoCall == [action |-> "none", caller |-> NULL, tripId |-> 0, matchedTripId |-> 0, code |-> 0]

\* the rows as saved, before any match request
FreshStore == [t \in TripIds |-> NewTrip(t)]

\* the store the route leaves once trip `from` has sent trip `to` a request
\* and the owner of `to` has accepted it
requestAndAccept(db, from, to) ==
    LET requested == CHOOSE r \in POST(db, db[from].user_email, "request", from, to) : TRUE
        accepted == CHOOSE r \in POST(requested.db, db[to].user_email, "accept", to, from) : TRUE
    IN  accepted.db

\* trips 1 and 2 are a confirmed pair
MatchedPairStore == requestAndAccept(FreshStore, 1, 2)

\* trip 1 is confirmed with trip 2 and with trip 3
TwoPartnerStore == requestAndAccept(MatchedPairStore, 3, 1)

\* no page has computed anything yet
NoView == <<>>

\* The columns and tables that the match-request route does not touch, for
\* rows ids that were all saved at time 0 and never checked for notifications
QuietColumns(ids) ==
    /\ trip_status = [t \in ids |-> "Unmatched (looking for matches)"]
    /\ created_at = [t \in ids |-> 0]
    /\ baseline_match_check_at = [t \in ids |-> NoTime]
    /\ match_notifications = {}
    /\ now = 0
    /\ checks = [p \in Procs |-> Idle]
    /\ sent = [pair \in ids \X ids |-> 0]
    /\ first_baseline = [t \in ids |-> NoTime]
    /\ view = NoView

\* The model starts from the rows as saved, or from a later store: with one
\* confirmed pair, or with a trip that has two confirmed partners.
Init ==
    /\ trips \in {FreshStore, MatchedPairStore, TwoPartnerStore}
    /\ pre = trips
    /\ last = NoCall
    /\ calls = 0
    /\ QuietColumns(TripIds)

\* One completed call of the route with the given action.  pre and last are
\* history: a behaviour is a sequence of calls and may record one of them,
\* the store before it and the response to it, as the call under observation;
\* the behaviour ends with the observed call.
Serve(action, callers, ids, limit) ==
    /\ last = NoCall
    /\ calls < limit
    /\ \E caller \in callers, tripId \in ids, matchedTripId \in ids :
          \E r \in POST(trips, caller, action, tripId, matchedTripId) :
              /\ trips' = r.db
              /\ calls' = IF r.code = 200 THEN calls + 1 ELSE calls
              /\ \/ UNCHANGED <<pre, last>>
                 \/ /\ pre' = trips
                    /\ last' = [action |-> action, caller |-> caller, tripId |-> tripId,
                                matchedTripId |-> matchedTripId, code |-> r.code]
    /\ UNCHANGED trip_status
    /\ UNCHANGED <<notifyVars, view>>

Call(action) == Serve(action, Emails, TripIds, MaxCalls)

Request == Call("request")

Withdraw == Call("withdraw")

Accept == Call("accept")

Deny == Call("deny")

Remove == Call("remove")

Next == Request \/ Withdraw \/ Accept \/ Deny \/ Remove

Spec == Init /\ [][Next]_vars

(* ---------------------------------------------------------------------- *)
(* The crowded store: enough rows to fill the six slots of one row and to  *)
(* have one more row ask for a slot.                                       *)
(* ---------------------------------------------------------------------- *)

CapTripIds == 1 .. (NumSlots + 2)

\* the rows as saved
CapFreshStore == [t \in CapTripIds |-> NewTrip(t)]

\* the store the route leaves once every trip of senders, in id order, has
\* sent trip `to` a request
RECURSIVE requestAll(_, _, _)
requestAll(db, senders, to) ==
    IF senders = {} THEN db
    ELSE LET from == Min(senders)
             requested == CHOOSE r \in POST(db, db[from].user_email, "request", from, to) : TRUE
         IN  requestAll(requested.db, senders \ {from}, to)

\* trip 1 has received five requests: one slot is left
AlmostFullStore == requestAll(CapFreshStore, 2 .. NumSlots, 1)

\* trip 1 is confirmed with trip 2 and has received requests from five more
\* trips: no slot is left
PoolFullStore ==
    requestAll(requestAndAccept(CapFreshStore, 2, 1), 3 .. (NumSlots + 1), 1)

\* the trips whose owners are signed in and act: the crowded trip, its
\* partner, and the last two rows
CapActive == {1, 2, NumSlots + 1, NumSlots + 2}

CapCallers == {EmailOf[t] : t \in CapActive}

CapInit ==
    /\ trips \in {AlmostFullStore, PoolFullStore}
    /\ pre = trips
    /\ last = NoCall
    /\ calls = 0
    /\ QuietColumns(CapTripIds)

CapRequest == Serve("request", CapCallers, CapActive, CapCalls)

CapWithdraw == Serve("withdraw", CapCallers, CapActive, CapCalls)

CapAccept == Serve("accept", CapCallers, CapActive, CapCalls)

CapDeny == Serve("deny", CapCallers, CapActive, CapCalls)

CapRemove == Serve("remove", CapCallers, CapActive, CapCalls)

CapNext == CapRequest \/ CapWithdraw \/ CapAccept \/ CapDeny \/ CapRemove

CapSpec == CapInit /\ [][CapNext]_vars

(* ---------------------------------------------------------------------- *)
(* POST /api/match-notifications (src/app/trips/page.tsx 1406-1598): the   *)
(* notification check of one trip, one step per store or mail access.      *)
(* Several checks run at once.  calls counts the checks started.           *)
(* ---------------------------------------------------------------------- *)

\* lines 1406-1424
allowsSex(allowed, partnerSex) ==
    IF allowed = NULL \/ allowed = "Any" THEN TRUE
    ELSE IF allowed = "Male only" THEN partnerSex = "Male"
    ELSE IF allowed = "Female only" THEN partnerSex = "Female"
    ELSE IF allowed = "Non-binary only" THEN partnerSex = "Non-binary"
    ELSE FALSE

\* an overlap test in which touching endpoints do not count
windowsOverlapOpen(aStart, aEnd, bStart, bEnd) ==
    IF aStart = NoTime \/ aEnd = NoTime \/ bStart = NoTime \/ bEnd = NoTime
    THEN FALSE
    ELSE aStart < bEnd /\ aEnd > bStart

\* lines 1426-1437
windowsOverlap(aStart, aEnd, bStart, bEnd) ==
    IF aStart = NoTime \/ aEnd = NoTime \/ bStart = NoTime \/ bEnd = NoTime
    THEN FALSE
    ELSE aStart <= bEnd /\ aEnd >= bStart

\* the columns sex, allowed_partner_sex, window_start and window_end of row
\* t as its owner saved them: odd rows are women's, row 3 admits women only,
\* and the windows are two hours long, one hour apart
Saved(t) ==
    [sex |-> IF t % 2 = 1 THEN "Female" ELSE "Male",
     allowed_partner_sex |-> IF t = 3 THEN "Female only" ELSE "Any",
     window_start |-> 9 + t,
     window_end |-> 11 + t]

\* lines 1513-1521: the rows of the same direction and date, of another id
\* and another owner
selectCandidates(t) ==
    {c \in DOMAIN trips :
        /\ created_at[c] # NoTime
        /\ trips[c].direction = trips[t].direction
        /\ trips[c].flight_date = trips[t].flight_date
        /\ c # t
        /\ trips[c].user_email # trips[t].user_email}

\* a filter that asks only whether the trip admits the candidate
compatibleOneWay(trip, candidate) ==
    /\ windowsOverlap(trip.window_start, trip.window_end,
                      candidate.window_start, candidate.window_end)
    /\ allowsSex(trip.allowed_partner_sex, candidate.sex)

\* lines 1527-1536: the filter of the candidates, over the columns of the
\* checked trip and of a candidate
compatibleRows(trip, candidate) ==
    /\ windowsOverlap(trip.window_start, trip.window_end,
                      candidate.window_start, candidate.window_end)
    /\ allowsSex(trip.allowed_partner_sex, candidate.sex)
    /\ allowsSex(candidate.allowed_partner_sex, trip.sex)

compatible(t, c) == compatibleRows(Saved(t), Saved(c))

\* lines 1461-1474
notificationExists(tripId, matchedTripId) ==
    <<tripId, matchedTripId>> \in match_notifications

\* the end of one pass of the for loop of line 1540: the next compatible
\* row, or the response once all were visited
nextCandidate(check) ==
    LET rest == check.remaining \ {check.cand}
    IN  IF rest = {} THEN Idle
        ELSE [check EXCEPT !.pc = "first", !.remaining = rest, !.cand = Min(rest)]

\* the readings the clock can give from now on
later == now .. MaxTime

\* handleSubmit's insert (README.md 523-536): the row gets its created_at;
\* the rows are numbered in the order in which they are saved
InsertTrip ==
    /\ \E t \in TripIds :
          /\ created_at[t] = NoTime
          /\ \A u \in TripIds : u < t => created_at[u] # NoTime
          /\ now' \in later
          /\ created_at' = [created_at EXCEPT ![t] = now']
    /\ UNCHANGED <<matchVars, view, trip_status, baseline_match_check_at,
                   match_notifications, checks, sent, first_baseline>>

\* lines 1476-1500: a check of a stored trip begins and reads its row (the
\* invocations are alike: the first free one is taken)
Start(limit) ==
    /\ calls < limit
    /\ \E p \in Procs, t \in TripIds :
          /\ checks[p] = Idle
          /\ \A q \in Procs : q < p => checks[q] # Idle
          /\ created_at[t] # NoTime
          /\ checks' = [checks EXCEPT ![p] =
                [pc |-> IF baseline_match_check_at[t] = NoTime THEN "baseline"
                        ELSE "select",
                 trip |-> t,
                 isNewTrip |-> baseline_match_check_at[t] = NoTime,
                 baseline |-> baseline_match_check_at[t],
                 seen |-> baseline_match_check_at,
                 remaining |-> {},
                 cand |-> t,
                 failed |-> {}]]
    /\ calls' = calls + 1
    /\ UNCHANGED <<trips, pre, last, view, trip_status, created_at, baseline_match_check_at,
                   match_notifications, now, sent, first_baseline>>

StartCheck == Start(MaxStarts)

\* lines 1501-1511: the row had no baseline when it was read
WriteBaseline ==
    /\ \E p \in Procs :
          /\ checks[p].pc = "baseline"
          /\ now' \in later
          /\ baseline_match_check_at' =
                [baseline_match_check_at EXCEPT ![checks[p].trip] = now']
          /\ first_baseline' =
                IF first_baseline[checks[p].trip] = NoTime
                THEN [first_baseline EXCEPT ![checks[p].trip] = now']
                ELSE first_baseline
          /\ checks' = [checks EXCEPT ![p].pc = "select", ![p].baseline = now']
    /\ UNCHANGED <<matchVars, view, trip_status, created_at, match_notifications, sent>>

\* lines 1513-1538: the candidates are read and filtered
SelectCandidates ==
    /\ \E p \in Procs :
          /\ checks[p].pc = "select"
          /\ LET t == checks[p].trip
                 found == {c \in selectCandidates(t) : compatible(t, c)}
             IN  checks' = [checks EXCEPT ![p] =
                    IF found = {} THEN Idle
                    ELSE [@ EXCEPT !.pc = "first", !.remaining = found,
                                   !.cand = Min(found),
                                   !.seen = baseline_match_check_at]]
    /\ UNCHANGED <<matchVars, view, trip_status, created_at, baseline_match_check_at,
                   match_notifications, now, sent, first_baseline>>

\* a comparison that admits a candidate created at the baseline
createdAtOrAfter(created, baseline) ==
    baseline # NoTime /\ created >= baseline

\* line 1541: baseline && candidate.created_at > baseline
createdAfter(created, baseline) ==
    baseline # NoTime /\ created > baseline

\* lines 1541-1545: is the candidate newer than the baseline, and is the
\* pair (trip, candidate) not in the ledger yet?
CheckFirst ==
    /\ \E p \in Procs :
          /\ checks[p].pc = "first"
          /\ LET t == checks[p].trip
                 c == checks[p].cand
                 candidateCreatedAfterBaseline ==
                     createdAfter(created_at[c], checks[p].baseline)
             IN  checks' = [checks EXCEPT ![p].pc =
                    IF candidateCreatedAfterBaseline /\ ~notificationExists(t, c)
                    THEN "sendA" ELSE "second"]
    /\ UNCHANGED <<matchVars, view, trip_status, created_at, baseline_match_check_at,
                   match_notifications, now, sent, first_baseline>>

\* a send whose error is not looked at: the record is written either way
SendFirstThenRecord ==
    /\ \E p \in Procs :
          /\ checks[p].pc = "sendA"
          /\ LET pair == <<checks[p].trip, checks[p].cand>>
             IN  \/ /\ sent' = [sent EXCEPT ![pair] = @ + 1]
                    /\ checks' = [checks EXCEPT ![p].pc = "insertA"]
                 \/ /\ sent' = sent
                    /\ checks' = [checks EXCEPT ![p].pc = "insertA",
                                                ![p].failed = @ \cup {pair}]
    /\ UNCHANGED <<matchVars, view, trip_status, created_at, baseline_match_check_at,
                   match_notifications, now, first_baseline>>

\* lines 1546-1547 and 1439-1459: the mail to the trip's owner is delivered,
\* or the mail service reports an error
SendFirst ==
    /\ \E p \in Procs :
          /\ checks[p].pc = "sendA"
          /\ LET pair == <<checks[p].trip, checks[p].cand>>
             IN  \/ /\ sent' = [sent EXCEPT ![pair] = @ + 1]
                    /\ checks' = [checks EXCEPT ![p].pc = "insertA"]
                 \/ /\ sent' = sent
                    /\ checks' = [checks EXCEPT ![p].pc = "second",
                                                ![p].failed = @ \cup {pair}]
    /\ UNCHANGED <<matchVars, view, trip_status, created_at, baseline_match_check_at,
                   match_notifications, now, first_baseline>>

\* lines 1548-1553
InsertFirst ==
    /\ \E p \in Procs :
          /\ checks[p].pc = "insertA"
          /\ match_notifications' =
                match_notifications \cup {<<checks[p].trip, checks[p].cand>>}
          /\ checks' = [checks EXCEPT ![p].pc = "second"]
    /\ UNCHANGED <<matchVars, view, trip_status, created_at, baseline_match_check_at,
                   now, sent, first_baseline>>

\* lines 1558-1561 and 1573-1575: is the trip newer than the candidate's
\* baseline (or creation), and is the pair (candidate, trip) not in the
\* ledger yet?  The blocks for a new and for a known trip are the same.
CheckSecond ==
    /\ \E p \in Procs :
          /\ checks[p].pc = "second"
          /\ LET t == checks[p].trip
                 c == checks[p].cand
                 otherBaseline == IF checks[p].seen[c] # NoTime THEN checks[p].seen[c]
                                  ELSE created_at[c]
             IN  checks' = [checks EXCEPT ![p] =
                    IF created_at[t] > otherBaseline /\ ~notificationExists(c, t)
                    THEN [@ EXCEPT !.pc = "sendB"]
                    ELSE nextCandidate(@)]
    /\ UNCHANGED <<matchVars, view, trip_status, created_at, baseline_match_check_at,
                   match_notifications, now, sent, first_baseline>>

\* lines 1562-1563 and 1576-1577: the mail to the candidate's owner
SendSecond ==
    /\ \E p \in Procs :
          /\ checks[p].pc = "sendB"
          /\ LET pair == <<checks[p].cand, checks[p].trip>>
             IN  \/ /\ sent' = [sent EXCEPT ![pair] = @ + 1]
                    /\ checks' = [checks EXCEPT ![p].pc = "insertB"]
                 \/ /\ sent' = sent
                    /\ checks' = [checks EXCEPT ![p] =
                          nextCandidate([@ EXCEPT !.failed = @ \cup {pair}])]
    /\ UNCHANGED <<matchVars, view, trip_status, created_at, baseline_match_check_at,
                   match_notifications, now, first_baseline>>

\* lines 1564-1569 and 1578-1583
InsertSecond ==
    /\ \E p \in Procs :
          /\ checks[p].pc = "insertB"
          /\ match_notifications' =
                match_notifications \cup {<<checks[p].cand, checks[p].trip>>}
          /\ checks' = [checks EXCEPT ![p] = nextCandidate(@)]
    /\ UNCHANGED <<matchVars, view, trip_status, created_at, baseline_match_check_at,
                   now, sent, first_baseline>>

\* no row is saved yet
NotifyInit ==
    /\ trips = FreshStore
    /\ pre = trips
    /\ last = NoCall
    /\ calls = 0
    /\ trip_status = [t \in TripIds |-> "Unmatched (looking for matches)"]
    /\ created_at = [t \in TripIds |-> NoTime]
    /\ baseline_match_check_at = [t \in TripIds |-> NoTime]
    /\ match_notifications = {}
    /\ now = 0
    /\ checks = [p \in Procs |-> Idle]
    /\ sent = [pair \in TripIds \X TripIds |-> 0]
    /\ first_baseline = [t \in TripIds |-> NoTime]
    /\ view = NoView

NotifyNext ==
    \/ InsertTrip \/ StartCheck \/ WriteBaseline \/ SelectCandidates
    \/ CheckFirst \/ SendFirst \/ InsertFirst
    \/ CheckSecond \/ SendSecond \/ InsertSecond

NotifySpec == NotifyInit /\ [][NotifyNext]_vars

\* the same handler with few checks started
StartFew == Start(FewStarts)

FewChecksNext ==
    \/ InsertTrip \/ StartFew \/ WriteBaseline \/ SelectCandidates
    \/ CheckFirst \/ SendFirst \/ InsertFirst
    \/ CheckSecond \/ SendSecond \/ InsertSecond

FewChecksSpec == NotifyInit /\ [][FewChecksNext]_vars

(* ---------------------------------------------------------------------- *)
(* Raw requests: any token, any body.                                      *)
(* ---------------------------------------------------------------------- *)

\* trip 1 and trip 2 are confirmed, trip 1 has asked trip 3, and trip 3's
\* accept has left the join awaiting trip 2's vote
PendingJoinStore == requestAndAccept(MatchedPairStore, 1, 3)

\* no token, a token that is no session, and the owners' sessions
ApiTokens == {NoToken, "expired"} \cup {TokenOf[t] : t \in TripIds}

\* a missing id, the stored ids, and an id that is not stored
ApiIds == {Missing} \cup TripIds \cup {NumTrips + 1}

ApiInit ==
    /\ trips \in {FreshStore, MatchedPairStore, PendingJoinStore}
    /\ pre = trips
    /\ last = NoCall
    /\ calls = 0
    /\ QuietColumns(TripIds)

\* one completed request with the given action in its body
ApiCall(action) ==
    /\ last = NoCall
    /\ calls < ApiCalls
    /\ \E token \in ApiTokens, tripId \in ApiIds, matchedTripId \in ApiIds :
          \E r \in handleRequest(trips, token, action, tripId, matchedTripId) :
              /\ trips' = r.db
              /\ calls' = IF r.code = 200 THEN calls + 1 ELSE calls
              /\ \/ UNCHANGED <<pre, last>>
                 \/ /\ pre' = trips
                    /\ last' = [action |-> action, caller |-> getUser(token),
                                tripId |-> tripId, matchedTripId |-> matchedTripId,
                                code |-> r.code]
    /\ UNCHANGED trip_status
    /\ UNCHANGED <<notifyVars, view>>

ApiRequest == ApiCall("request")

ApiWithdraw == ApiCall("withdraw")

ApiAccept == ApiCall("accept")

ApiDeny == ApiCall("deny")

ApiRemove == ApiCall("remove")

\* an action that is none of the five
ApiUnsupported == ApiCall("merge")

\* a body without action
ApiNoAction == ApiCall(NULL)

ApiNext ==
    \/ ApiRequest \/ ApiWithdraw \/ ApiAccept \/ ApiDeny \/ ApiRemove
    \/ ApiUnsupported \/ ApiNoAction

ApiSpec == ApiInit /\ [][ApiNext]_vars

(* ---------------------------------------------------------------------- *)
(* Trip status: the status-sync route (src/app/auth/callback/page.js,      *)
(* lines 77-191), the status control of the trips page and the trip form.  *)
(* ---------------------------------------------------------------------- *)

TRIP_STATUS_OPTIONS ==
    {"Unmatched (looking for matches)", "Matched and still looking", "Matched and satisfied"}

MATCHED_TRIP_STATUS_OPTIONS == {"Matched and still looking", "Matched and satisfied"}

\* the response of the status-sync route and the trip_status column it leaves
StatusResponse(code, column) == [code |-> code, column |-> column]

\* lines 147-153: the emails of the trip's slots whose status is matched
matchedEmails(trip) ==
    {trip.match_email[i] : i \in {j \in matchEmailFields :
        trip.match_email[j] # NULL /\ trip.match_status[j] = "matched"}}

\* lines 158-169: the rows of those users that hold a matched slot with the
\* trip owner's email; the query names neither direction nor flight date
selectMatchedTrips(db, trip) ==
    {r \in DOMAIN db :
        /\ db[r].user_email \in matchedEmails(trip)
        /\ \E i \in matchEmailFields :
              /\ db[r].match_email[i] = trip.user_email
              /\ db[r].match_status[i] = "matched"}

\* lines 107-191: POST of /api/trip-status-sync with its token and its body
tripStatusSync(db, column, token, tripId, value) ==
    IF token = NoToken
    THEN StatusResponse(401, column)
    ELSE IF getUser(token) = NULL
    THEN StatusResponse(401, column)
    ELSE IF tripId = Missing \/ value = NULL
    THEN StatusResponse(400, column)
    ELSE IF tripId \notin DOMAIN db
    THEN StatusResponse(404, column)
    ELSE IF db[tripId].user_email # getUser(token)
    THEN StatusResponse(403, column)
    ELSE LET trip == db[tripId]
             updates == {tripId} \cup
                 (IF matchedEmails(trip) # {} THEN selectMatchedTrips(db, trip) ELSE {})
         IN  StatusResponse(200,
                 [t \in DOMAIN column |-> IF t \in updates THEN value ELSE column[t]])

\* supabase.auth.getSession(): the access token of the signed-in user
accessToken(email) == TokenOf[CHOOSE i \in DOMAIN EmailOf : EmailOf[i] = email]

\* updateTripStatus of the trips page (src/app/trips/page.tsx, lines 528-582)
\* for the signed-in user: a matched-category value goes through the sync
\* route, any other value is written to the user's own row only
updateTripStatus(db, column, email, tripId, value) ==
    IF value \in MATCHED_TRIP_STATUS_OPTIONS
    THEN tripStatusSync(db, column, accessToken(email), tripId, value)
    ELSE StatusResponse(200,
             [t \in DOMAIN column |->
                 IF t = tripId /\ db[t].user_email = email THEN value ELSE column[t]])

\* the flight dates of the status pages' rows
FlightDates == <<"2024-05-10", "2024-05-11">>

\* the rows of the status pages: rows 1 .. NumTrips fly on the first date,
\* and the first two users each have one more trip, on the second date
StatusTripIds == 1 .. (NumTrips + 2)

StatusTrip(id) ==
    IF id <= NumTrips
    THEN NewTrip(id)
    ELSE [NewTrip(id) EXCEPT !.user_email = EmailOf[id - NumTrips],
                             !.flight_date = FlightDates[2]]

StatusFreshStore == [t \in StatusTripIds |-> StatusTrip(t)]

\* the two users are a confirmed pair on each of the two dates
StatusPairsStore ==
    requestAndAccept(requestAndAccept(StatusFreshStore, 1, 2), NumTrips + 1, NumTrips + 2)

StatusInit ==
    /\ trips \in {StatusFreshStore, StatusPairsStore}
    /\ pre = trips
    /\ last = NoCall
    /\ calls = 0
    /\ QuietColumns(StatusTripIds)

StatusRequest == Serve("request", Emails, StatusTripIds, StatusCalls)

StatusAccept == Serve("accept", Emails, StatusTripIds, StatusCalls)

\* src/app/trips/page.tsx, lines 803-806: some slot of the trip is matched
hasConfirmedMatch(trip) ==
    \E i \in matchStatusFields : trip.match_status[i] = "matched"

\* lines 813-817: the status the trips page shows for a trip, from its
\* slots and its stored trip_status
derivedTripStatus(trip, stored) ==
    IF hasConfirmedMatch(trip)
    THEN IF stored = "Matched and satisfied"
         THEN "Matched and satisfied"
         ELSE "Matched and still looking"
    ELSE "Unmatched (looking for matches)"

\* lines 1089-1092: the step of the status control that cannot be clicked
\* (no update of this trip is under way)
isDisabled(trip, value) ==
    \/ (~hasConfirmedMatch(trip) /\ value # "Unmatched (looking for matches)")
    \/ (hasConfirmedMatch(trip) /\ value = "Unmatched (looking for matches)")

\* One click on a step of the status control of one of the signed-in user's
\* trips (lines 1087-1102), on a page that shows the rows as stored.  A sync
\* through the route may be recorded in last as the observed call.
UpdateTripStatus ==
    /\ last = NoCall
    /\ calls < StatusCalls
    /\ \E tripId \in StatusTripIds, value \in TRIP_STATUS_OPTIONS :
          LET email == trips[tripId].user_email
              r == updateTripStatus(trips, trip_status, email, tripId, value)
          IN  /\ ~isDisabled(trips[tripId], value)
              /\ trip_status' = r.column
              /\ calls' = IF r.code = 200 THEN calls + 1 ELSE calls
              /\ \/ UNCHANGED <<pre, last>>
                 \/ /\ value \in MATCHED_TRIP_STATUS_OPTIONS
                    /\ pre' = trips
                    /\ last' = [action |-> "trip-status-sync", caller |-> email,
                                tripId |-> tripId, matchedTripId |-> tripId,
                                code |-> r.code]
    /\ UNCHANGED trips
    /\ UNCHANGED <<notifyVars, view>>

\* the tokens and the bodies of raw requests to the status-sync route
StatusTokens == {NoToken, "expired"} \cup {accessToken(e) : e \in Emails}

StatusBodyIds == {Missing} \cup StatusTripIds \cup {NumTrips + 3}

StatusBodyValues == {NULL} \cup TRIP_STATUS_OPTIONS

\* One completed request to /api/trip-status-sync (callback/page.js, lines
\* 107-191) with any token and any body
SyncRequest ==
    /\ last = NoCall
    /\ calls < StatusCalls
    /\ \E token \in StatusTokens, tripId \in StatusBodyIds, value \in StatusBodyValues :
          LET r == tripStatusSync(trips, trip_status, token, tripId, value)
          IN  /\ trip_status' = r.column
              /\ calls' = IF r.code = 200 THEN calls + 1 ELSE calls
    /\ UNCHANGED <<trips, pre, last>>
    /\ UNCHANGED <<notifyVars, view>>

\* hasDuplicateTrip of the trip form (src/README.md, lines 431-443) over the
\* user's own trips
hasDuplicateTrip(db, email, editingTripId, direction, flightDate) ==
    IF direction = "" \/ flightDate = ""
    THEN FALSE
    ELSE \E t \in DOMAIN db :
            /\ db[t].user_email = email
            /\ t # editingTripId
            /\ db[t].direction = direction
            /\ db[t].flight_date = flightDate

\* handleSubmit of the trip form for a trip under edit (src/README.md, lines
\* 445-523): the update rewrites the form's columns of the user's own row,
\* trip_status among them, and none of the match columns.  The notification
\* request it then sends is served by the notification route.
EditTrip ==
    /\ last = NoCall
    /\ calls < StatusCalls
    /\ \E editingTripId \in StatusTripIds, flightDate \in {FlightDates[i] : i \in DOMAIN FlightDates} :
          LET email == trips[editingTripId].user_email
              direction == trips[editingTripId].direction
          IN  /\ ~hasDuplicateTrip(trips, email, editingTripId, direction, flightDate)
              /\ trips' = [trips EXCEPT ![editingTripId].flight_date = flightDate]
              /\ trip_status' = [trip_status EXCEPT
                                    ![editingTripId] = "Unmatched (looking for matches)"]
    /\ calls' = calls + 1
    /\ UNCHANGED <<pre, last>>
    /\ UNCHANGED <<notifyVars, view>>

StatusNext ==
    StatusRequest \/ StatusAccept \/ UpdateTripStatus \/ SyncRequest \/ EditTrip

StatusSpec == StatusInit /\ [][StatusNext]_vars

(* ---------------------------------------------------------------------- *)
(* Compatibility of two stored trips: the candidate query and filter of    *)
(* the notification route (src/app/trips/page.tsx, lines 1513-1536) over   *)
(* rows that carry the columns the filter reads.                           *)
(* ---------------------------------------------------------------------- *)

SEX_OPTIONS == {"Male", "Female", "Non-binary"}

PARTNER_OPTIONS == {"Any", "Male only", "Female only", "Non-binary only"}

DIRECTION_OPTIONS == {"Departing Pittsburgh", "Arriving to Pittsburgh"}

\* flight_time, window_start and window_end of a row, as instants in hours:
\* a departure whose window a form computed (here with no hours between the
\* window's end and the flight), or a row without window columns (a row of
\* the dashboard form, src/app/dashboard/page.tsx, lines 129-139)
Schedules ==
    {[flight_time |-> w[2], window_start |-> w[1], window_end |-> w[2]] :
        w \in {v \in (0 .. MaxHour) \X (0 .. MaxHour) : v[1] <= v[2]}}
    \cup {[flight_time |-> h, window_start |-> NoTime, window_end |-> NoTime] :
            h \in 0 .. MaxHour}

\* a stored row with the columns of the candidate query
CompatTrip(id, direction, flight_date, sex, allowed, schedule) ==
    [id |-> id, user_email |-> EmailOf[id], direction |-> direction,
     flight_date |-> flight_date, sex |-> sex, allowed_partner_sex |-> allowed,
     flight_time |-> schedule.flight_time,
     window_start |-> schedule.window_start, window_end |-> schedule.window_end,
     match_email |-> [i \in matchEmailFields |-> NULL],
     match_status |-> [i \in matchStatusFields |-> NULL]]

\* a store of two rows of different owners
CompatStore(s1, a1, w1, d2, f2, s2, a2, w2) ==
    <<CompatTrip(1, "Departing Pittsburgh", FlightDates[1], s1, a1, w1),
      CompatTrip(2, d2, f2, s2, a2, w2)>>

CompatInit ==
    /\ \E s1 \in SEX_OPTIONS, a1 \in PARTNER_OPTIONS, w1 \in Schedules,
          d2 \in DIRECTION_OPTIONS, f2 \in {FlightDates[i] : i \in DOMAIN FlightDates},
          s2 \in SEX_OPTIONS, a2 \in PARTNER_OPTIONS, w2 \in Schedules :
          trips = CompatStore(s1, a1, w1, d2, f2, s2, a2, w2)
    /\ pre = trips
    /\ last = NoCall
    /\ calls = 0
    /\ QuietColumns({1, 2})

\* lines 1513-1538 for stored trip t: the compatible candidates of t
compatibleCandidates(t) ==
    {c \in selectCandidates(t) : compatibleRows(trips[t], trips[c])}

\* The route computes the compatible candidates of one stored trip; view
\* keeps the list of every trip it was computed for.
FilterCandidates ==
    /\ \E t \in DOMAIN trips :
          /\ t \notin DOMAIN view
          /\ view' = (t :> compatibleCandidates(t)) @@ view
    /\ UNCHANGED <<matchVars, trip_status, notifyVars>>

CompatNext == FilterCandidates

CompatSpec == CompatInit /\ [][CompatNext]_vars

(* ---------------------------------------------------------------------- *)
(* The trip form (src/README.md, PlanTripPage): validateAndComputeWindow   *)
(* and handleSubmit.  Instants are minutes since 2024-05-01T00:00Z; the    *)
(* text of a time input is the pair of its hour and minute fields, and     *)
(* <<>> is the empty text.                                                 *)
(* ---------------------------------------------------------------------- *)

\* dateValue.split("-").map(Number): year, month and day of the date texts
\* of the model; <<>> for the empty text, whose year is 0
DateFields(dateValue) ==
    CASE dateValue = "2024-05-10" -> <<2024, 5, 10>>
      [] dateValue = "2024-05-11" -> <<2024, 5, 11>>
      [] dateValue = "2024-05-12" -> <<2024, 5, 12>>
      [] OTHER -> <<>>

\* lines 115-125: Date.UTC(year, month - 1, day, hour + 5, minute), or an
\* invalid date (NoTime); the empty time text reads as hour 0, minute 0
toDateTimeEST(dateValue, timeValue) ==
    LET fields == DateFields(dateValue)
        hour == IF Len(timeValue) >= 1 THEN timeValue[1] ELSE 0
        minute == IF Len(timeValue) >= 2 THEN timeValue[2] ELSE 0
    IN  IF fields = <<>>
        THEN NoTime
        ELSE ((fields[3] - 1) * 24 + hour + 5) * 60 + minute

\* lines 102-105: Number(value) of the texts of the model; the empty text
\* is 0, a text that is no number is not finite
parseHours(value) ==
    CASE value = ""   -> [finite |-> TRUE, hours |-> 0]
      [] value = "0"  -> [finite |-> TRUE, hours |-> 0]
      [] value = "2"  -> [finite |-> TRUE, hours |-> 2]
      [] value = "4"  -> [finite |-> TRUE, hours |-> 4]
      [] value = "-1" -> [finite |-> TRUE, hours |-> -1]
      [] OTHER        -> [finite |-> FALSE, hours |-> 0]

\* an addition that moves the instant the other way
addHoursBack(dateValue, hours) == dateValue - hours * 60

\* lines 127-129
addHours(dateValue, hours) == dateValue + hours * 60

\* the form's answer when it stores nothing
ComputeError ==
    [error |-> TRUE, windowStart |-> NoTime, windowEnd |-> NoTime,
     willingToWaitUntil |-> NULL, minHoursBefore |-> NULL, maxHoursBefore |-> NULL]

\* lines 366-429
validateAndComputeWindow(form) ==
    LET flightDateTime == toDateTimeEST(form.flightDate, form.flightTime)
        waitUntil == toDateTimeEST(form.flightDate, form.willingToWaitUntil)
        minHours == parseHours(form.minHoursBefore)
        maxHours == parseHours(form.maxHoursBefore)
    IN  IF form.flightDate = "" \/ form.flightTime = <<>> \/ form.direction = ""
        THEN ComputeError
        ELSE IF flightDateTime = NoTime
        THEN ComputeError
        ELSE IF form.direction = "Arriving to Pittsburgh"
        THEN IF form.willingToWaitUntil = <<>>
             THEN ComputeError
             ELSE IF waitUntil = NoTime
             THEN ComputeError
             ELSE [error |-> FALSE,
                   windowStart |-> flightDateTime,
                   windowEnd |-> IF waitUntil < flightDateTime
                                 THEN waitUntil + 24 * 60
                                 ELSE waitUntil,
                   willingToWaitUntil |-> form.willingToWaitUntil,
                   minHoursBefore |-> NULL, maxHoursBefore |-> NULL]
        ELSE IF ~minHours.finite \/ ~maxHours.finite
        THEN ComputeError
        ELSE IF minHours.hours < 0 \/ maxHours.hours < 0
        THEN ComputeError
        ELSE IF maxHours.hours < minHours.hours
        THEN ComputeError
        ELSE [error |-> FALSE,
              windowStart |-> addHours(flightDateTime, -maxHours.hours),
              windowEnd |-> addHours(flightDateTime, -minHours.hours),
              willingToWaitUntil |-> NULL,
              minHoursBefore |-> minHours.hours, maxHoursBefore |-> maxHours.hours]

\* an id of the table under which no row is stored
NoRow(id) ==
    [id |-> id, user_email |-> NULL, direction |-> NULL, flight_date |-> NULL,
     flight_time |-> <<>>, allowed_partner_sex |-> NULL,
     willing_to_wait_until_time |-> <<>>,
     min_hours_before |-> NULL, max_hours_before |-> NULL,
     window_start |-> NoTime, window_end |-> NoTime,
     match_email |-> [i \in matchEmailFields |-> NULL],
     match_status |-> [i \in matchStatusFields |-> NULL]]

\* lines 478-493: the payload of handleSubmit written over a row (all of a
\* new row; the match columns of an edited row stay)
withPayload(row, email, form, computed) ==
    [row EXCEPT !.user_email = email,
                !.direction = form.direction,
                !.flight_date = form.flightDate,
                !.flight_time = form.flightTime,
                !.allowed_partner_sex = form.allowedPartnerSex,
                !.willing_to_wait_until_time =
                    IF computed.willingToWaitUntil = NULL THEN <<>>
                    ELSE computed.willingToWaitUntil,
                !.min_hours_before = computed.minHoursBefore,
                !.max_hours_before = computed.maxHoursBefore,
                !.window_start = computed.windowStart,
                !.window_end = computed.windowEnd]

\* is a row stored under this id?
Stored(t) == created_at[t] # NoTime

\* the ids, owners and texts of the trip form's model
FormIds == 1 .. FormRows

FormOwners == {EmailOf[1]}

FlightTimeTexts == {<<14, 0>>, <<23, 0>>}

WaitUntilTexts == {<<>>, <<1, 0>>, <<23, 30>>}

HourTexts == {"", "2", "4", "-1", "abc"}

\* what a signed-in user with a complete profile can have typed
Forms ==
    {[direction |-> "Departing Pittsburgh", flightDate |-> d, flightTime |-> t,
      allowedPartnerSex |-> "Any", willingToWaitUntil |-> <<>>,
      minHoursBefore |-> lo, maxHoursBefore |-> hi] :
        d \in {FlightDates[i] : i \in DOMAIN FlightDates}, t \in FlightTimeTexts,
        lo \in HourTexts, hi \in HourTexts}
    \cup
    {[direction |-> "Arriving to Pittsburgh", flightDate |-> d, flightTime |-> t,
      allowedPartnerSex |-> "Any", willingToWaitUntil |-> w,
      minHoursBefore |-> "", maxHoursBefore |-> ""] :
        d \in {FlightDates[i] : i \in DOMAIN FlightDates}, t \in FlightTimeTexts,
        w \in WaitUntilTexts}

\* the readings the clock can give to the pages: midnight and 13:00 of the
\* days of the model
PageClock ==
    {toDateTimeEST(d, t) : d \in {"2024-05-10", "2024-05-11", "2024-05-12"},
                           t \in {<<0, 0>>, <<13, 0>>}}

laterOnPages == {t \in PageClock : t >= now}

\* an empty table, read at the first hour of the clock
NoTrips(ids) ==
    /\ trips = [t \in ids |-> NoRow(t)]
    /\ pre = trips
    /\ last = NoCall
    /\ calls = 0
    /\ trip_status = [t \in ids |-> "Unmatched (looking for matches)"]
    /\ created_at = [t \in ids |-> NoTime]
    /\ baseline_match_check_at = [t \in ids |-> NoTime]
    /\ match_notifications = {}
    /\ now = toDateTimeEST("2024-05-10", <<0, 0>>)
    /\ checks = [p \in Procs |-> Idle]
    /\ sent = [pair \in ids \X ids |-> 0]
    /\ first_baseline = [t \in ids |-> NoTime]
    /\ view = NoView

\* what the form shows after a submit: the form as typed, the trip under
\* edit (0: none) and the row written (0: none, an error is shown)
Submitted(email, form, editingTripId, id) ==
    [page |-> "plan", email |-> email, form |-> form,
     editingTripId |-> editingTripId, saved |-> id]

\* handleSubmit (lines 445-546) of a user with a complete profile, for a new
\* trip: the checks, the insert under the next free id, and the form's
\* message; the clock then reads one of the given readings.  The
\* notification request it then sends is served by the notification route.
\* A behaviour may end with an observed submit, kept in view.
SubmitNew(owners, ids, readings) ==
    /\ view = NoView
    /\ \E email \in owners, form \in Forms, id \in ids :
          LET computed == validateAndComputeWindow(form)
              rejected ==
                  \/ form.direction = ""
                  \/ hasDuplicateTrip(trips, email, 0, form.direction, form.flightDate)
                  \/ computed.error
          IN  /\ ~Stored(id)
              /\ \A u \in ids : u < id => Stored(u)
              /\ IF rejected
                 THEN /\ UNCHANGED <<trips, trip_status, created_at, now>>
                      /\ view' = Submitted(email, form, 0, 0)
                 ELSE /\ now' \in readings
                      /\ trips' = [trips EXCEPT ![id] =
                                      withPayload(NoRow(id), email, form, computed)]
                      /\ trip_status' = [trip_status EXCEPT
                                            ![id] = "Unmatched (looking for matches)"]
                      /\ created_at' = [created_at EXCEPT ![id] = now']
                      /\ view' \in {view, Submitted(email, form, 0, id)}
    /\ UNCHANGED <<pre, last, calls, baseline_match_check_at, match_notifications,
                   checks, sent, first_baseline>>

\* handleSubmit for a trip under edit, which the page has loaded as the
\* owner's (lines 262-296): the checks and the update of the row
SubmitEdit(owners, ids) ==
    /\ view = NoView
    /\ \E editingTripId \in ids, form \in Forms :
          LET email == trips[editingTripId].user_email
              computed == validateAndComputeWindow(form)
              rejected ==
                  \/ form.direction = ""
                  \/ hasDuplicateTrip(trips, email, editingTripId,
                                      form.direction, form.flightDate)
                  \/ computed.error
          IN  /\ Stored(editingTripId)
              /\ email \in owners
              /\ IF rejected
                 THEN /\ UNCHANGED <<trips, trip_status>>
                      /\ view' = Submitted(email, form, editingTripId, 0)
                 ELSE /\ trips' = [trips EXCEPT ![editingTripId] =
                                      withPayload(@, email, form, computed)]
                      /\ trip_status' = [trip_status EXCEPT
                            ![editingTripId] = "Unmatched (looking for matches)"]
                      /\ view' = Submitted(email, form, editingTripId, editingTripId)
    /\ UNCHANGED <<pre, last, calls, notifyVars>>

FormInit == NoTrips(FormIds)

\* the trips of the form are saved within one reading of the clock
SaveTrip == SubmitNew(FormOwners, FormIds, {now})

SaveEdit == SubmitEdit(FormOwners, FormIds)

FormNext == SaveTrip \/ SaveEdit

FormSpec == FormInit /\ [][FormNext]_vars

(* ---------------------------------------------------------------------- *)
(* The other pages that save trips: the arrival page for riders who are    *)
(* at the airport (src/app/pit-unmatched/page.tsx) and the dashboard form  *)
(* (src/app/dashboard/page.tsx).                                           *)
(* ---------------------------------------------------------------------- *)

\* Intl.DateTimeFormat with timeZone America/New_York on a day of May 2024
\* (pit-unmatched/page.tsx, lines 60-71): the wall clock is four hours
\* behind UTC; the date text and the hour and minute fields of the time text
wallClock(instant) == instant - 4 * 60

formatDateEST(dateValue) ==
    LET day == (wallClock(dateValue) \div (24 * 60)) + 1
    IN  CASE day = 10 -> "2024-05-10"
          [] day = 11 -> "2024-05-11"
          [] day = 12 -> "2024-05-12"
          [] OTHER -> "2024-05-09"

formatTimeEST(dateValue) ==
    <<(wallClock(dateValue) % (24 * 60)) \div 60, wallClock(dateValue) % 60>>

\* lines 73-78: the wall clock of now, read as toDateTimeEST reads it
getNowEST == toDateTimeEST(formatDateEST(now), formatTimeEST(now))

\* Number(waitMinutes) of the texts of the model
MinuteTexts == {"", "30", "600"}

minutesOf(waitMinutes) ==
    CASE waitMinutes = "30" -> 30
      [] waitMinutes = "600" -> 600
      [] OTHER -> 0

\* handleSubmit of the arrival page (lines 259-307) of a user with a saved
\* profile: the row starts now and ends after the minutes typed.  Nothing
\* is read from the table before the insert.
SubmitArrivalNow(owners, ids) ==
    /\ view = NoView
    /\ \E email \in owners, waitMinutes \in MinuteTexts, id \in ids :
          LET minutes == minutesOf(waitMinutes)
              nowEST == getNowEST
              windowEnd == nowEST + minutes
              payload ==
                  [NoRow(id) EXCEPT
                      !.user_email = email,
                      !.direction = "Arriving to Pittsburgh",
                      !.flight_date = formatDateEST(nowEST),
                      !.flight_time = formatTimeEST(nowEST),
                      !.allowed_partner_sex = "Any",
                      !.willing_to_wait_until_time = formatTimeEST(windowEnd),
                      !.window_start = nowEST,
                      !.window_end = windowEnd]
          IN  /\ ~Stored(id)
              /\ \A u \in ids : u < id => Stored(u)
              /\ minutes > 0
              /\ trips' = [trips EXCEPT ![id] = payload]
              /\ trip_status' = [trip_status EXCEPT
                                    ![id] = "Unmatched (looking for matches)"]
              /\ created_at' = [created_at EXCEPT ![id] = now]
    /\ UNCHANGED <<pre, last, calls, view, baseline_match_check_at,
                   match_notifications, now, checks, sent, first_baseline>>

\* handleSubmit of the dashboard form for a new trip (dashboard/page.tsx,
\* lines 109-156): the typed columns are inserted; the row has no window
SubmitDashboard(owners, ids) ==
    /\ view = NoView
    /\ \E email \in owners, id \in ids,
          direction \in {"Arrival", "Departure"},
          flightDate \in {FlightDates[i] : i \in DOMAIN FlightDates},
          flightTime \in FlightTimeTexts :
          /\ ~Stored(id)
          /\ \A u \in ids : u < id => Stored(u)
          /\ trips' = [trips EXCEPT ![id] =
                [NoRow(id) EXCEPT !.user_email = email,
                                  !.direction = direction,
                                  !.flight_date = flightDate,
                                  !.flight_time = flightTime,
                                  !.allowed_partner_sex = "Any"]]
          /\ trip_status' = [trip_status EXCEPT
                                ![id] = "Unmatched (looking for matches)"]
          /\ created_at' = [created_at EXCEPT ![id] = now]
    /\ UNCHANGED <<pre, last, calls, view, baseline_match_check_at,
                   match_notifications, now, checks, sent, first_baseline>>

SaveIds == 1 .. SaveRows

SaveInit == NoTrips(SaveIds)

SavePlanned == SubmitNew(FormOwners, SaveIds, {now})

SavePlannedEdit == SubmitEdit(FormOwners, SaveIds)

SaveArrivalNow == SubmitArrivalNow(FormOwners, SaveIds)

SaveDashboard == SubmitDashboard(FormOwners, SaveIds)

SaveNext == SavePlanned \/ SavePlannedEdit \/ SaveArrivalNow \/ SaveDashboard

SaveSpec == SaveInit /\ [][SaveNext]_vars

(* ---------------------------------------------------------------------- *)
(* Deleting a trip on the trips page (src/app/trips/page.tsx).             *)
(* ---------------------------------------------------------------------- *)

\* lines 807-812: normalizeTime(willing_to_wait_until_time || flight_time)
completeCutoffTime(trip) ==
    IF trip.willing_to_wait_until_time # <<>>
    THEN trip.willing_to_wait_until_time
    ELSE trip.flight_time

tripComplete(trip) ==
    /\ toDateTimeEST(trip.flight_date, completeCutoffTime(trip)) # NoTime
    /\ toDateTimeEST(trip.flight_date, completeCutoffTime(trip)) < now

\* a deletion that also empties the slots other rows hold for the owner
DeleteTripAndSlots(owners, ids) ==
    /\ \E tripId \in ids :
          /\ Stored(tripId)
          /\ trips[tripId].user_email \in owners
          /\ ~tripComplete(trips[tripId])
          /\ trips' = [t \in DOMAIN trips |->
                IF t = tripId THEN NoRow(tripId)
                ELSE [trips[t] EXCEPT
                        !.match_email = [i \in matchEmailFields |->
                            IF trips[t].match_email[i] = trips[tripId].user_email
                            THEN NULL ELSE trips[t].match_email[i]],
                        !.match_status = [i \in matchStatusFields |->
                            IF trips[t].match_email[i] = trips[tripId].user_email
                            THEN NULL ELSE trips[t].match_status[i]]]]
          /\ created_at' = [created_at EXCEPT ![tripId] = NoTime]
          /\ trip_status' = [trip_status EXCEPT
                                ![tripId] = "Unmatched (looking for matches)"]
    /\ UNCHANGED <<pre, last, calls, view, baseline_match_check_at,
                   match_notifications, now, checks, sent, first_baseline>>

\* the Delete button (lines 1056-1072) and handleDeleteTrip (lines 509-526):
\* the click returns when the trip is complete, else the owner's row goes
DeleteTrip(owners, ids) ==
    /\ \E tripId \in ids :
          /\ Stored(tripId)
          /\ trips[tripId].user_email \in owners
          /\ ~tripComplete(trips[tripId])
          /\ trips' = [trips EXCEPT ![tripId] = NoRow(tripId)]
          /\ created_at' = [created_at EXCEPT ![tripId] = NoTime]
          /\ trip_status' = [trip_status EXCEPT
                                ![tripId] = "Unmatched (looking for matches)"]
    /\ UNCHANGED <<pre, last, calls, view, baseline_match_check_at,
                   match_notifications, now, checks, sent, first_baseline>>

\* new Date() of the pages gives a later reading
ClockPasses ==
    /\ \E t \in laterOnPages : t # now /\ now' = t
    /\ UNCHANGED <<matchVars, view, trip_status, created_at,
                   baseline_match_check_at, match_notifications, checks, sent,
                   first_baseline>>

DeleteInit == NoTrips(FormIds)

PlanTrip == SubmitNew(FormOwners, FormIds, {now})

DeleteOwnTrip == DeleteTrip(FormOwners, FormIds)

DeleteNext == PlanTrip \/ ClockPasses \/ DeleteOwnTrip

DeleteSpec == DeleteInit /\ [][DeleteNext]_vars

(* ---------------------------------------------------------------------- *)
(* The candidate lists of the trips page (src/app/trips/page.tsx,          *)
(* fetchMatchesForTrips and the list of each trip card).                   *)
(* ---------------------------------------------------------------------- *)

\* Number.POSITIVE_INFINITY among the differences of the model
POSITIVE_INFINITY == 1000000

\* lines 101-110; differences are in minutes
diffMinutes(dateValue, timeA, timeB) ==
    LET a == toDateTimeEST(dateValue, timeA)
        b == toDateTimeEST(dateValue, timeB)
    IN  IF a = NoTime \/ b = NoTime
        THEN POSITIVE_INFINITY
        ELSE IF a >= b THEN a - b ELSE b - a

\* the difference the comparators of lines 341-345 and 797-801 compute for
\* candidate c of trip t
diffOf(t, c) ==
    diffMinutes(trips[t].flight_date, trips[t].flight_time, trips[c].flight_time)

\* a sort that puts a candidate before the candidates of equal difference
\* that precede it in the input
sortTiesReversed(t, list) ==
    LET place(i) ==
            1 + Cardinality({j \in DOMAIN list :
                    \/ diffOf(t, list[j]) < diffOf(t, list[i])
                    \/ diffOf(t, list[j]) = diffOf(t, list[i]) /\ j > i})
    IN  [k \in DOMAIN list |-> list[CHOOSE i \in DOMAIN list : place(i) = k]]

\* Array.prototype.sort with the comparator aDiff - bDiff (lines 341-345 and
\* 797-801): the sort is stable, so a candidate comes after the candidates
\* of smaller difference and after those of equal difference that precede
\* it in the input (a comparator result of NaN counts as 0)
sortByDiff(t, list) ==
    LET place(i) ==
            1 + Cardinality({j \in DOMAIN list :
                    \/ diffOf(t, list[j]) < diffOf(t, list[i])
                    \/ diffOf(t, list[j]) = diffOf(t, list[i]) /\ j < i})
    IN  [k \in DOMAIN list |-> list[CHOOSE i \in DOMAIN list : place(i) = k]]

\* lines 287-294: the rows the query can return, in any order
queryCandidates(t) ==
    {c \in DOMAIN trips : /\ created_at[c] # NoTime
                          /\ trips[c].direction = trips[t].direction
                          /\ trips[c].flight_date = trips[t].flight_date
                          /\ trips[c].user_email # trips[t].user_email}

Orders(S) ==
    {list \in [1 .. Cardinality(S) -> S] :
        \A i, j \in 1 .. Cardinality(S) : list[i] = list[j] => i = j}

\* the profiles table: the sex of an owner
profileSex(email) == IF email = EmailOf[2] THEN "Male" ELSE "Female"

\* lines 443-452
hasConfirmedMatchWith(trip, otherEmail) ==
    \E i \in matchEmailFields :
        trip.match_email[i] = otherEmail /\ trip.match_status[i] = "matched"

\* lines 329-339
confirmedEmails(trip) ==
    {trip.match_email[i] : i \in {j \in matchEmailFields :
                                    /\ trip.match_status[j] = "matched"
                                    /\ trip.match_email[j] # NULL}}

\* lines 346-348, over the sorted candidates
confirmedCandidates(t, enriched) ==
    SelectSeq(enriched,
              LAMBDA c : trips[c].user_email \in confirmedEmails(trips[t]))

\* lines 350-375
potentialCandidates(t, enriched) ==
    SelectSeq(enriched, LAMBDA c :
        /\ trips[c].user_email \notin confirmedEmails(trips[t])
        /\ trip_status[c] # "Matched and satisfied"
        /\ windowsOverlap(trips[t].window_start, trips[t].window_end,
                          trips[c].window_start, trips[c].window_end)
        /\ allowsSex(trips[t].allowed_partner_sex, profileSex(trips[c].user_email))
        /\ allowsSex(trips[c].allowed_partner_sex, profileSex(trips[t].user_email)))

\* the owners of the rows of a list
emailsOf(list) == {trips[list[i]].user_email : i \in DOMAIN list}

\* lines 377-388: without the candidates confirmed with an owner who is not
\* among the potential candidates
paired(potential) ==
    SelectSeq(potential, LAMBDA c :
        \A i \in matchEmailFields :
            ~ /\ trips[c].match_status[i] = "matched"
              /\ trips[c].match_email[i] # NULL
              /\ trips[c].match_email[i] \notin emailsOf(potential))

\* lines 390-406: without the candidates whose confirmation the partner in
\* the list does not hold
finalList(pairedList) ==
    LET find(matchedEmail) ==
            pairedList[Min({i \in DOMAIN pairedList :
                              trips[pairedList[i]].user_email = matchedEmail})]
    IN  SelectSeq(pairedList, LAMBDA c :
            \A i \in matchEmailFields :
                ( /\ trips[c].match_status[i] = "matched"
                  /\ trips[c].match_email[i] # NULL
                  /\ trips[c].match_email[i] \in emailsOf(pairedList) )
                => hasConfirmedMatchWith(trips[find(trips[c].match_email[i])],
                                         trips[c].user_email))

\* the only element of a set of one
theOne(S) == CHOOSE r \in S : TRUE

\* lines 341-408 for trip t of the viewer and the rows data of the query:
\* each list is computed once from the list before it
fetchMatchesForTrips(t, data) ==
    theOne({theOne({theOne({
        [enriched |-> enriched,
         matches |-> confirmedCandidates(t, enriched) \o finalList(pairedList)] :
            pairedList \in {paired(potential)}}) :
            potential \in {potentialCandidates(t, enriched)}}) :
            enriched \in {sortByDiff(t, data)}})

\* a row of the model of the lists: an arrival whose rider waits two hours,
\* with the columns the trip form stores for it
OrderTrip(id, email, direction, flightDate, flightTime) ==
    [id |-> id, user_email |-> email, direction |-> direction,
     flight_date |-> flightDate, flight_time |-> flightTime,
     allowed_partner_sex |-> "Any",
     willing_to_wait_until_time |-> <<flightTime[1] + 2, flightTime[2]>>,
     min_hours_before |-> NULL, max_hours_before |-> NULL,
     window_start |-> toDateTimeEST(flightDate, flightTime),
     window_end |-> addHours(toDateTimeEST(flightDate, flightTime), 2),
     match_email |-> [i \in matchEmailFields |-> NULL],
     match_status |-> [i \in matchStatusFields |-> NULL]]

OrderIds == 1 .. OrderRows

OrderFlightTimes == {<<10, 0>>, <<12, 0>>, <<16, 0>>}

\* what a row other than row 1 can be: a trip of its own owner like row 1's,
\* or in the other direction, or on the other date, or one more arrival of
\* row 1's owner on row 1's date (a second submit of the arrival page)
OrderKinds == {"same", "direction", "date", "own"}

OrderRow(id, kind, flightTime) ==
    OrderTrip(id,
              IF kind = "own" THEN EmailOf[1] ELSE EmailOf[id],
              IF kind = "direction" THEN "Departing Pittsburgh"
              ELSE "Arriving to Pittsburgh",
              IF kind = "date" THEN FlightDates[2] ELSE FlightDates[1],
              flightTime)

\* the table with row 1 confirmed with row 2, when asked
confirmedPair(db, confirmed) ==
    IF ~confirmed THEN db
    ELSE [db EXCEPT ![1].match_email[0] = db[2].user_email,
                    ![1].match_status[0] = "matched",
                    ![2].match_email[0] = db[1].user_email,
                    ![2].match_status[0] = "matched"]

\* the kinds and flight times of a row: the rows that no list of row 1's
\* owner can take are all at 12:00
OrderShapes ==
    ({"same", "own"} \X OrderFlightTimes)
    \cup ({"direction", "date"} \X {<<12, 0>>})

\* a table of the model: row 1 is an arrival at 14:00
OrderStore(shapes, confirmed) ==
    confirmedPair([id \in OrderIds |->
                      IF id = 1
                      THEN OrderTrip(1, EmailOf[1], "Arriving to Pittsburgh",
                                     FlightDates[1], <<14, 0>>)
                      ELSE OrderRow(id, shapes[id][1], shapes[id][2])],
                  confirmed /\ shapes[2][1] = "same")

OrderInit ==
    /\ \E shapes \in [OrderIds \ {1} -> OrderShapes], confirmed \in BOOLEAN :
          trips = OrderStore(shapes, confirmed)
    /\ pre = trips
    /\ last = NoCall
    /\ calls = 0
    /\ QuietColumns(OrderIds)

\* The trips page of the owner of row 1 computes the list of one of the
\* owner's trips (lines 286-408) and the card sorts it (lines 797-801).
ListMatches ==
    /\ view = NoView
    /\ \E t \in DOMAIN trips :
          /\ trips[t].user_email = EmailOf[1]
          /\ \E data \in Orders(queryCandidates(t)) :
                \E fetched \in {fetchMatchesForTrips(t, data)} :
                    view' = [page |-> "trips", trip |-> t, data |-> data,
                             enriched |-> fetched.enriched,
                             matches |-> fetched.matches,
                             tripMatches |-> sortByDiff(t, fetched.matches)]
    /\ UNCHANGED <<matchVars, trip_status, notifyVars>>

OrderNext == ListMatches

OrderSpec == OrderInit /\ [][OrderNext]_vars

(* ---------------------------------------------------------------------- *)
(* Votes on a pool join (src/app/api/match-requests/route.js): calls of    *)
(* the route on stores in which a join awaits the votes of a pool.         *)
(* ---------------------------------------------------------------------- *)

VoteIds == 1 .. (NumTrips + 1)

VoteCallers == {EmailOf[t] : t \in VoteIds}

VoteFreshStore == [t \in VoteIds |-> NewTrip(t)]

\* the store the route leaves when the owner of trip `voter` accepts on the
\* trip's slot toward trip `joiner`
acceptBy(db, voter, joiner) ==
    (CHOOSE r \in POST(db, db[voter].user_email, "accept", voter, joiner) : TRUE).db

\* trips 1 and 2 are confirmed; trip 1 has asked trip 3, trip 3 has
\* accepted, and trip 2 holds the vote
OneVoterStore ==
    requestAndAccept(requestAndAccept(VoteFreshStore, 1, 2), 1, 3)

\* trip 1 is confirmed with trips 2 and 4; trip 1 has asked trip 3, trip 3
\* has accepted, and trips 2 and 4 hold a vote each
TwoVotersStore ==
    requestAndAccept(
        requestAndAccept(requestAndAccept(VoteFreshStore, 1, 2), 4, 1), 1, 3)

\* trips 1 and 4 are each confirmed with trip 2; both have asked trip 3,
\* trip 3 has accepted both, and trip 2 holds one vote slot toward trip 3
TwoJoinsStore ==
    requestAndAccept(
        requestAndAccept(
            requestAndAccept(requestAndAccept(VoteFreshStore, 1, 2), 4, 2), 1, 3),
        4, 3)

\* trips 1, 2 and 4 have confirmed one another (1 with 2, 4 with 1, then 4
\* with 2 by the vote of trip 1); trip 4 has asked trip 3, trip 3 has
\* accepted, and trips 1 and 2 hold a vote each
PoolOfThreeStore ==
    requestAndAccept(
        acceptBy(
            requestAndAccept(
                requestAndAccept(requestAndAccept(VoteFreshStore, 1, 2), 4, 1),
                4, 2),
            1, 2),
        4, 3)

VoteInit ==
    /\ trips \in {OneVoterStore, TwoVotersStore, TwoJoinsStore, PoolOfThreeStore}
    /\ pre = trips
    /\ last = NoCall
    /\ calls = 0
    /\ QuietColumns(VoteIds)

VoteRequest == Serve("request", VoteCallers, VoteIds, VoteCalls)

VoteWithdraw == Serve("withdraw", VoteCallers, VoteIds, VoteCalls)

VoteAccept == Serve("accept", VoteCallers, VoteIds, VoteCalls)

VoteDeny == Serve("deny", VoteCallers, VoteIds, VoteCalls)

VoteRemove == Serve("remove", VoteCallers, VoteIds, VoteCalls)

VoteNext == VoteRequest \/ VoteWithdraw \/ VoteAccept \/ VoteDeny \/ VoteRemove

VoteSpec == VoteInit /\ [][VoteNext]_vars

(* ---------------------------------------------------------------------- *)
(* Store failures.  A store call resolves with an error object.  updateTrip *)
(* (route.js, lines 127-132) turns the error into a throw, which the catch *)
(* of each action answers with 500; the selects inside the actions take    *)
(* only data from the result, and the updates of the status-sync route     *)
(* (callback/page.js, lines 180-190) are awaited without a look at theirs. *)
(* ---------------------------------------------------------------------- *)

\* the store call of one run of the match-request handler that fails: its
\* first updateTrip, its second updateTrip, or the first select it issues
\* after the two rows were read
FailurePoints == {"firstWrite", "secondWrite", "lookup"}

\* lines 127-132 under the catch of an action: the first or the second of
\* two consecutive writes throws; db1 is the store after the first write
cutWrites(db, db1, point) ==
    IF point = "firstWrite" THEN {Response(500, db)}
    ELSE IF point = "secondWrite" THEN {Response(500, db1)}
    ELSE {}

\* lines 212-215 and 317-320: the call is the vote of a pool member
isVote(trip, matchTrip, requesterSlot) ==
    /\ trip.match_status[requesterSlot] = "partner_approval_needed"
    /\ ~hasStatusWithEmail(matchTrip, trip.user_email, "partner_approval_needed")

\* lines 134-159 with a failing store call (no response: the run does not
\* issue that call)
failRequest(db, trip, matchTrip, requesterSlot, matchSlot, point) ==
    LET slotA == IF requesterSlot = NotFound THEN getEmptySlot(trip) ELSE requesterSlot
        slotB == IF matchSlot = NotFound THEN getEmptySlot(matchTrip) ELSE matchSlot
    IN  IF slotA = NotFound \/ slotB = NotFound
        THEN {}
        ELSE cutWrites(db, updateTrip(db, trip.id, slotA, matchTrip.user_email,
                                      "request_sent"), point)

\* lines 161-203 with a failing store call: a failed select of the partner
\* rows leaves partnerTrips undefined, the loop runs over [] and the handler
\* goes on to its ok
failWithdraw(db, trip, matchTrip, requesterSlot, matchSlot, point) ==
    IF requesterSlot = NotFound \/ matchSlot = NotFound
    THEN {}
    ELSE LET db1 == clearSlot(db, trip.id, requesterSlot)
             db2 == clearSlot(db1, matchTrip.id, matchSlot)
         IN  IF point = "lookup"
             THEN IF getMatchedPartners(trip) # {} THEN {Response(200, db2)} ELSE {}
             ELSE cutWrites(db, db1, point)

\* lines 205-308 with a failing store call.  On the vote path the first
\* select is that of the possible requesters (lines 221-225): without its
\* rows no requester is found and the handler answers ok (lines 234-236).
failAccept(db, trip, matchTrip, requesterSlot, matchSlot, point) ==
    IF requesterSlot = NotFound
    THEN {}
    ELSE IF isVote(trip, matchTrip, requesterSlot)
    THEN LET db1 == clearSlot(db, trip.id, requesterSlot)
         IN  IF point = "firstWrite" THEN {Response(500, db)}
             ELSE IF point = "lookup" THEN {Response(200, db1)}
             ELSE {}
    ELSE IF matchSlot = NotFound
    THEN {}
    ELSE IF getMatchedPartners(matchTrip) # {}
    THEN LET db1 == setStatus(db, trip.id, requesterSlot, "partner_approval_needed")
             db2 == setStatus(db1, matchTrip.id, matchSlot, "partner_approval_needed")
         IN  IF point = "lookup" THEN {Response(200, db2)}
             ELSE cutWrites(db, db1, point)
    ELSE cutWrites(db, setStatus(db, trip.id, requesterSlot, "matched"), point)

\* lines 310-398 with a failing store call
failDeny(db, trip, matchTrip, requesterSlot, matchSlot, point) ==
    IF requesterSlot = NotFound
    THEN {}
    ELSE IF isVote(trip, matchTrip, requesterSlot)
    THEN LET db1 == clearSlot(db, trip.id, requesterSlot)
         IN  IF point = "firstWrite" THEN {Response(500, db)}
             ELSE IF point = "lookup" THEN {Response(200, db1)}
             ELSE {}
    ELSE IF matchSlot = NotFound
    THEN {}
    ELSE cutWrites(db, clearSlot(db, trip.id, requesterSlot), point)

\* lines 400-419 with a failing store call
failRemove(db, trip, matchTrip, requesterSlot, matchSlot, point) ==
    IF requesterSlot = NotFound \/ matchSlot = NotFound
    THEN {}
    ELSE cutWrites(db, clearSlot(db, trip.id, requesterSlot), point)

\* lines 60-132 and the dispatch on action, for a call that passes the
\* checks made before the first store call of its action
POSTFailing(db, requesterEmail, action, tripId, matchedTripId, point) ==
    IF Cardinality({tripId, matchedTripId} \cap DOMAIN db) # 2
    THEN {}
    ELSE LET trip == db[tripId]
             matchTrip == db[matchedTripId]
             requesterSlot == getSlotForEmail(trip, matchTrip.user_email)
             matchSlot == getSlotForEmail(matchTrip, trip.user_email)
         IN  IF ~authorized(action, requesterEmail, trip, matchTrip)
             THEN {}
             ELSE CASE action = "request"  -> failRequest(db, trip, matchTrip, requesterSlot, matchSlot, point)
                    [] action = "withdraw" -> failWithdraw(db, trip, matchTrip, requesterSlot, matchSlot, point)
                    [] action = "accept"   -> failAccept(db, trip, matchTrip, requesterSlot, matchSlot, point)
                    [] action = "deny"     -> failDeny(db, trip, matchTrip, requesterSlot, matchSlot, point)
                    [] action = "remove"   -> failRemove(db, trip, matchTrip, requesterSlot, matchSlot, point)
                    [] OTHER               -> {}

\* callback/page.js, lines 142-191, for the owner's own stored trip: the
\* select of the matched rows fails (its error is read, line 170), or the
\* updates of the rows in failed resolve with an error and write nothing
\* while Promise.all resolves
syncWithFailures(db, column, tripId, value, lookupFails, failed) ==
    LET trip == db[tripId]
    IN  IF matchedEmails(trip) # {} /\ lookupFails
        THEN StatusResponse(500, column)
        ELSE LET updates == {tripId} \cup
                     (IF matchedEmails(trip) # {} THEN selectMatchedTrips(db, trip) ELSE {})
             IN  StatusResponse(200,
                     [t \in DOMAIN column |->
                         IF t \in updates \ failed THEN value ELSE column[t]])

\* the store the route leaves once trip `from` has sent trip `to` a request
requested(db, from, to) ==
    (CHOOSE r \in POST(db, db[from].user_email, "request", from, to) : TRUE).db

\* trip 1 has sent trip 2 a request
RequestedStore == requested(FreshStore, 1, 2)

\* trips 1 and 2 are a confirmed pair and trip 1 has sent trip 3 a request
JoinRequestedStore == requested(MatchedPairStore, 1, 3)

\* The stores before a failure: the rows as saved, a sent request, a
\* confirmed pair, a trip with two confirmed partners, a request sent by a
\* trip with a confirmed partner, and a join that awaits a vote
FailInit ==
    /\ trips \in {FreshStore, RequestedStore, MatchedPairStore, TwoPartnerStore,
                  JoinRequestedStore, PendingJoinStore}
    /\ pre = trips
    /\ last = NoCall
    /\ calls = 0
    /\ QuietColumns(TripIds)

\* One call of the route during which one store call fails; view keeps the
\* call, the failure and the response.
StoreFails ==
    /\ view = NoView
    /\ last = NoCall
    /\ \E caller \in Emails, action \in Actions, tripId \in TripIds,
          matchedTripId \in TripIds, point \in FailurePoints :
          \E r \in POSTFailing(trips, caller, action, tripId, matchedTripId, point) :
              /\ trips' = r.db
              /\ view' = [page |-> "match-requests", point |-> point, action |-> action,
                          caller |-> caller, tripId |-> tripId,
                          matchedTripId |-> matchedTripId, code |-> r.code,
                          before |-> trips]
    /\ UNCHANGED <<pre, last, calls, trip_status>>
    /\ UNCHANGED notifyVars

\* After the failure the owner of one of the two trips sends a call on the
\* same pair and no store call fails: the failed call again with the same
\* arguments, or another call.  It is the observed call.
CallAgain ==
    /\ view # NoView
    /\ view.page = "match-requests"
    /\ last = NoCall
    /\ \E action \in Actions,
          tripId \in {view.tripId, view.matchedTripId},
          matchedTripId \in {view.tripId, view.matchedTripId} :
          \E caller \in {trips[tripId].user_email, trips[matchedTripId].user_email} :
          \E r \in POST(trips, caller, action, tripId, matchedTripId) :
              /\ tripId # matchedTripId
              /\ trips' = r.db
              /\ pre' = trips
              /\ last' = [action |-> action, caller |-> caller, tripId |-> tripId,
                          matchedTripId |-> matchedTripId, code |-> r.code]
    /\ UNCHANGED <<calls, trip_status, view>>
    /\ UNCHANGED notifyVars

\* One status sync of the owner of a stored trip during which the select of
\* the matched rows or some of the updates fail
SyncFails ==
    /\ view = NoView
    /\ last = NoCall
    /\ \E tripId \in TripIds, value \in MATCHED_TRIP_STATUS_OPTIONS,
          lookupFails \in BOOLEAN, failed \in SUBSET TripIds :
          LET r == syncWithFailures(trips, trip_status, tripId, value, lookupFails, failed)
              matched == IF matchedEmails(trips[tripId]) # {}
                         THEN selectMatchedTrips(trips, trips[tripId]) ELSE {}
          IN  /\ lookupFails \/ failed # {}
              /\ lookupFails => (matchedEmails(trips[tripId]) # {} /\ failed = {})
              /\ failed \subseteq ({tripId} \cup matched)
              /\ trip_status' = r.column
              /\ view' = [page |-> "trip-status-sync", tripId |-> tripId,
                          value |-> value, lookupFails |-> lookupFails,
                          failed |-> failed, code |-> r.code, before |-> trip_status]
    /\ UNCHANGED <<trips, pre, last, calls>>
    /\ UNCHANGED notifyVars

FailNext ==
    \/ StoreFails \/ CallAgain \/ SyncFails

FailSpec == FailInit /\ [][FailNext]_vars

(* ---------------------------------------------------------------------- *)
(* Concurrent calls of the match-request route.  A call reads its two rows *)
(* (lines 60-66), works out its slots from what it read and then issues    *)
(* its updates one by one; the store serves the updates of concurrent      *)
(* calls in any order.                                                     *)
(* ---------------------------------------------------------------------- *)

\* the concurrent calls
Racers == 1 .. RaceCalls

\* an update object for one slot of one row
Update(rowId, slot, email, status) ==
    [rowId |-> rowId, slot |-> slot, email |-> email, status |-> status]

\* the updateTrip calls that an action issues first, with the slots taken
\* from the rows read at the start of the call: lines 144-155 (request),
\* 167-174 (withdraw), 216-219, 276-277 and 301-302 (accept), 321-324 and
\* 385-392 (deny), 406-413 (remove); none when the call is answered 4xx
leadingUpdates(action, trip, matchTrip, requesterSlot, matchSlot) ==
    LET slotA == IF requesterSlot = NotFound THEN getEmptySlot(trip) ELSE requesterSlot
        slotB == IF matchSlot = NotFound THEN getEmptySlot(matchTrip) ELSE matchSlot
        clearBoth == <<Update(trip.id, requesterSlot, NULL, NULL),
                       Update(matchTrip.id, matchSlot, NULL, NULL)>>
        setBoth(status) == <<Update(trip.id, requesterSlot, KEEP, status),
                             Update(matchTrip.id, matchSlot, KEEP, status)>>
    IN  CASE action = "request" ->
                IF slotA = NotFound \/ slotB = NotFound THEN <<>>
                ELSE <<Update(trip.id, slotA, matchTrip.user_email, "request_sent"),
                       Update(matchTrip.id, slotB, trip.user_email, "request_received")>>
          [] action \in {"withdraw", "remove"} ->
                IF requesterSlot = NotFound \/ matchSlot = NotFound THEN <<>>
                ELSE clearBoth
          [] action \in {"accept", "deny"} ->
                IF requesterSlot = NotFound THEN <<>>
                ELSE IF isVote(trip, matchTrip, requesterSlot)
                THEN <<Update(trip.id, requesterSlot, NULL, NULL)>>
                ELSE IF matchSlot = NotFound THEN <<>>
                ELSE IF action = "deny" THEN clearBoth
                ELSE IF getMatchedPartners(matchTrip) # {}
                THEN setBoth("partner_approval_needed")
                ELSE setBoth("matched")
          [] OTHER -> <<>>

\* what the action does after its leading updates, on the store as it then
\* is: the cascade of withdraw (lines 176-197), the vote of accept (lines
\* 221-265) or of deny (lines 326-376), the propagation of a pool accept
\* (lines 279-296)
trailingUpdates(db, action, trip, matchTrip, requesterSlot) ==
    CASE action = "withdraw" ->
            IF getMatchedPartners(trip) # {}
            THEN {clearPartnerApprovals(db,
                      selectPartnerTrips(db, getMatchedPartners(trip),
                                         trip.direction, trip.flight_date),
                      matchTrip.user_email)}
            ELSE {db}
      [] action \in {"accept", "deny"} /\ isVote(trip, matchTrip, requesterSlot) ->
            LET candidates == requesterCandidates(db, trip, matchTrip)
            IN  IF candidates = {} THEN {db}
                ELSE {IF action = "accept" THEN resolveApproval(db, db[c], matchTrip)
                      ELSE rollbackJoin(db, db[c], matchTrip) : c \in candidates}
      [] action = "accept" /\ ~isVote(trip, matchTrip, requesterSlot) ->
            IF getMatchedPartners(matchTrip) # {}
            THEN {propagateApproval(db, getMatchedPartners(matchTrip), trip, matchTrip)}
            ELSE {db}
      [] OTHER -> {db}

\* no call has read anything yet
NoRacer == [pc |-> "idle"]

RaceInit ==
    /\ trips \in {RequestedStore, MatchedPairStore, PendingJoinStore}
    /\ pre = trips
    /\ last = NoCall
    /\ calls = 0
    /\ trip_status = [t \in TripIds |-> "Unmatched (looking for matches)"]
    /\ created_at = [t \in TripIds |-> 0]
    /\ baseline_match_check_at = [t \in TripIds |-> NoTime]
    /\ match_notifications = {}
    /\ now = 0
    /\ checks = [p \in Procs |-> Idle]
    /\ sent = [pair \in TripIds \X TripIds |-> 0]
    /\ first_baseline = [t \in TripIds |-> NoTime]
    /\ view = [c \in Racers |-> NoRacer]

\* lines 60-105: an authorized call reads its two rows; it is followed here
\* when it goes on to write
ReadRows ==
    \E c \in Racers, caller \in Emails, action \in Actions,
       tripId \in TripIds, matchedTripId \in TripIds :
        /\ view[c].pc = "idle"
        /\ tripId # matchedTripId
        /\ LET trip == trips[tripId]
               matchTrip == trips[matchedTripId]
               requesterSlot == getSlotForEmail(trip, matchTrip.user_email)
               matchSlot == getSlotForEmail(matchTrip, trip.user_email)
               updates == leadingUpdates(action, trip, matchTrip, requesterSlot, matchSlot)
           IN  /\ authorized(action, caller, trip, matchTrip)
               /\ updates # <<>>
               /\ view' = [view EXCEPT ![c] =
                     [pc |-> "writing", action |-> action, caller |-> caller,
                      trip |-> trip, matchTrip |-> matchTrip,
                      requesterSlot |-> requesterSlot, updates |-> updates]]
        /\ UNCHANGED <<trips, pre, last, calls, trip_status>>
        /\ UNCHANGED notifyVars

\* lines 127-132: the store serves the next update of one of the calls
WriteSlot ==
    \E c \in Racers :
        /\ view[c].pc = "writing"
        /\ view[c].updates # <<>>
        /\ LET u == Head(view[c].updates)
           IN  trips' = updateTrip(trips, u.rowId, u.slot, u.email, u.status)
        /\ view' = [view EXCEPT ![c].updates = Tail(@)]
        /\ UNCHANGED <<pre, last, calls, trip_status>>
        /\ UNCHANGED notifyVars

\* the rest of the action, and its ok
Complete ==
    \E c \in Racers :
        /\ view[c].pc = "writing"
        /\ view[c].updates = <<>>
        /\ trips' \in trailingUpdates(trips, view[c].action, view[c].trip,
                                      view[c].matchTrip, view[c].requesterSlot)
        /\ view' = [view EXCEPT ![c].pc = "done"]
        /\ UNCHANGED <<pre, last, calls, trip_status>>
        /\ UNCHANGED notifyVars

RaceNext == ReadRows \/ WriteSlot \/ Complete

RaceSpec == RaceInit /\ [][RaceNext]_vars

(* ---------------------------------------------------------------------- *)
(* Deletion of a trip that other trips hold slots for: the rows of the     *)
(* trips page with their match columns, the match-request route over the   *)
(* stored rows, and the Delete button.                                     *)
(* ---------------------------------------------------------------------- *)

\* a saved trip of the owner of id: a departure with its flight time
PeerTrip(id) ==
    [NoRow(id) EXCEPT !.user_email = EmailOf[id],
                      !.direction = NewTrip(id).direction,
                      !.flight_date = NewTrip(id).flight_date,
                      !.flight_time = <<14, 0>>]

PeerFreshStore == [t \in TripIds |-> PeerTrip(t)]

\* the rows that are in the table
storedRows == [t \in {u \in DOMAIN trips : Stored(u)} |-> trips[t]]

PeerInit ==
    /\ trips \in {PeerFreshStore, requestAndAccept(PeerFreshStore, 1, 2)}
    /\ pre = trips
    /\ last = NoCall
    /\ calls = 0
    /\ QuietColumns(TripIds)

\* one completed call of the match-request route over the stored rows
PeerCall(action) ==
    /\ last = NoCall
    /\ calls < PeerCalls
    /\ \E caller \in Emails, tripId \in TripIds, matchedTripId \in TripIds :
          \E r \in POST(storedRows, caller, action, tripId, matchedTripId) :
              /\ trips' = [t \in DOMAIN trips |->
                              IF t \in DOMAIN r.db THEN r.db[t] ELSE trips[t]]
              /\ calls' = IF r.code = 200 THEN calls + 1 ELSE calls
    /\ UNCHANGED <<pre, last, trip_status>>
    /\ UNCHANGED <<notifyVars, view>>

PeerRequest == PeerCall("request")

PeerAccept == PeerCall("accept")

PeerDelete == DeleteTrip(Emails, TripIds)

PeerNext == PeerRequest \/ PeerAccept \/ PeerDelete

PeerSpec == PeerInit /\ [][PeerNext]_vars

TypeOK ==
    /\ \A t \in TripIds :
          /\ trips[t].match_email \in [matchEmailFields -> Emails \cup {NULL}]
          /\ trips[t].match_status \in [matchStatusFields -> Statuses \cup {NULL}]
    /\ last.code \in {0, 200, 400, 403, 404}

(* ---------------------------------------------------------------------- *)
(* Vocabulary of the properties                                            *)
(* ---------------------------------------------------------------------- *)

\* the status trip x holds toward the owner of trip y in store db (NULL: no slot)
statusToward(db, x, y) ==
    LET slot == getSlotForEmail(db[x], db[y].user_email)
    IN  IF slot = NotFound THEN NULL ELSE db[x].match_status[slot]

\* does trip x hold some slot with y's owner and this status?
holdsToward(db, x, y, status) ==
    \E i \in matchEmailFields :
        /\ db[x].match_email[i] = db[y].user_email
        /\ db[x].match_status[i] = status

matchedBothSides(db, x, y) ==
    holdsToward(db, x, y, "matched") /\ holdsToward(db, y, x, "matched")

\* a call has been observed
Observed(action) == last.action = action

OwnerOf(t) == trips[t].user_email

\* store db with the slot(s) of x toward y's owner and of y toward x's owner emptied
withoutPair(db, x, y) ==
    [t \in DOMAIN db |->
        [db[t] EXCEPT
            !.match_email = [i \in matchEmailFields |->
                IF \/ (t = x /\ db[t].match_email[i] = db[y].user_email)
                   \/ (t = y /\ db[t].match_email[i] = db[x].user_email)
                THEN NULL ELSE db[t].match_email[i]],
            !.match_status = [i \in matchStatusFields |->
                IF \/ (t = x /\ db[t].match_email[i] = db[y].user_email)
                   \/ (t = y /\ db[t].match_email[i] = db[x].user_email)
                THEN NULL ELSE db[t].match_status[i]]]]

\* The store an accept(x, y) on the pool path leaves: x and y await approval
\* of each other, and p, a confirmed partner of y, holds the vote slot, which
\* references x's owner and which x does not mirror.
JoinPending(db, x, y, p) ==
    /\ Cardinality({x, y, p}) = 3
    /\ statusToward(db, x, y) = "partner_approval_needed"
    /\ statusToward(db, y, x) = "partner_approval_needed"
    /\ matchedBothSides(db, y, p)
    /\ statusToward(db, p, x) = "partner_approval_needed"
    /\ statusToward(db, x, p) # "partner_approval_needed"

\* the caller whom the authorization rule lets run the observed call: the
\* owner of tripId, and for remove also the owner of matchedTripId
Entitled ==
    \/ last.caller = pre[last.tripId].user_email
    \/ /\ last.action = "remove"
       /\ last.caller = pre[last.matchedTripId].user_email

(* ---------------------------------------------------------------------- *)
(* C1  Mirror symmetry: whenever trip x holds a matched slot toward trip   *)
(* y's owner, trip y holds a matched slot toward trip x's owner.           *)
(* ---------------------------------------------------------------------- *)
C1_MirrorSymmetry ==
    \A x, y \in TripIds :
        holdsToward(trips, x, y, "matched") => holdsToward(trips, y, x, "matched")

(* ---------------------------------------------------------------------- *)
(* C2  Idempotent accept: an accept by T's owner on a pair (T, R) that is  *)
(* matched on both sides answers ok and leaves every slot of every trip    *)
(* as it was.                                                              *)
(* ---------------------------------------------------------------------- *)
C2_AcceptIdempotent ==
    ( /\ Observed("accept")
      /\ last.caller = OwnerOf(last.tripId)
      /\ last.tripId # last.matchedTripId
      /\ matchedBothSides(pre, last.tripId, last.matchedTripId) )
    => (last.code = 200 /\ trips = pre)

(* ---------------------------------------------------------------------- *)
(* C3  Unanimous consent: when trips x and y hold partner_approval_needed  *)
(* toward each other and a matched partner p of one of them holds a        *)
(* partner_approval_needed vote slot on the join, no call makes x and y    *)
(* matched while p's vote slot is still partner_approval_needed.           *)
(* ---------------------------------------------------------------------- *)
C3_UnanimousConsent ==
    [][ \A x, y, p \in TripIds :
          JoinPending(trips, x, y, p) =>
             ~( /\ matchedBothSides(trips', x, y)
                /\ statusToward(trips', p, x) = "partner_approval_needed" ) ]_vars

(* ---------------------------------------------------------------------- *)
(* C4  Scenario 4: T matched with P, R holds request_sent toward T and T   *)
(* request_received toward R; accept by T's owner puts R's and T's mutual  *)
(* slots in partner_approval_needed, gives P a partner_approval_needed     *)
(* slot referencing R, and leaves no R-T slot matched.                     *)
(* ---------------------------------------------------------------------- *)
C4_PoolJoinOnAccept ==
    \A P \in TripIds :
        LET T == last.tripId
            R == last.matchedTripId
        IN  ( /\ Observed("accept")
              /\ last.caller = OwnerOf(T)
              /\ Cardinality({T, R, P}) = 3
              /\ matchedBothSides(pre, T, P)
              /\ statusToward(pre, R, T) = "request_sent"
              /\ statusToward(pre, T, R) = "request_received" )
            => ( /\ statusToward(trips, R, T) = "partner_approval_needed"
                 /\ statusToward(trips, T, R) = "partner_approval_needed"
                 /\ statusToward(trips, P, R) = "partner_approval_needed"
                 /\ ~holdsToward(trips, R, T, "matched")
                 /\ ~holdsToward(trips, T, R, "matched") )

(* ---------------------------------------------------------------------- *)
(* C5  Scenario 3: R holds request_sent toward T, T request_received       *)
(* toward R, and T has no matched slot; accept by T's owner makes both     *)
(* slots matched in that call, whatever R's other slots hold.              *)
(* ---------------------------------------------------------------------- *)
C5_DirectConfirmation ==
    LET T == last.tripId
        R == last.matchedTripId
    IN  ( /\ Observed("accept")
          /\ last.caller = OwnerOf(T)
          /\ T # R
          /\ statusToward(pre, R, T) = "request_sent"
          /\ statusToward(pre, T, R) = "request_received"
          /\ getMatchedPartners(pre[T]) = {}
          /\ \A i \in matchStatusFields : pre[T].match_status[i] # "matched" )
        => ( /\ last.code = 200
             /\ statusToward(trips, R, T) = "matched"
             /\ statusToward(trips, T, R) = "matched" )

(* ---------------------------------------------------------------------- *)
(* C6  Authorization: on two stored trips, request, withdraw, accept and   *)
(* deny write only for the owner of tripId, remove only for the owner of   *)
(* tripId or of matchedTripId; any other caller is answered 403 and no     *)
(* trip is written.                                                        *)
(* ---------------------------------------------------------------------- *)
C6_Authorization ==
    (last # NoCall /\ last.tripId # last.matchedTripId)
    => /\ ~Entitled => (last.code = 403 /\ trips = pre)
       /\ trips # pre => Entitled

\* a caller who owns only the other trip of an existing pair was refused a
\* withdraw that the owner could have run
C6_Witness ==
    /\ Observed("withdraw")
    /\ last.code = 403
    /\ last.caller = pre[last.matchedTripId].user_email
    /\ statusToward(pre, last.tripId, last.matchedTripId) = "request_sent"
    /\ statusToward(pre, last.matchedTripId, last.tripId) = "request_received"
    /\ trips = pre

(* ---------------------------------------------------------------------- *)
(* C7  Accept is the recipient's action: an accept changes slots only when *)
(* the caller's slot toward the other trip is request_received or          *)
(* partner_approval_needed; the sender of a request, whose slot is         *)
(* request_sent, cannot make the pair matched by calling accept.           *)
(* ---------------------------------------------------------------------- *)
C7_AcceptByRecipient ==
    LET mine == statusToward(pre, last.tripId, last.matchedTripId)
    IN  ( /\ Observed("accept")
          /\ last.tripId # last.matchedTripId
          /\ mine \notin {"request_received", "partner_approval_needed"}
          \* accept on a pair that is already matched is the subject of C2
          /\ mine # "matched" )
        => /\ trips = pre
           /\ ~matchedBothSides(trips, last.tripId, last.matchedTripId)

(* ---------------------------------------------------------------------- *)
(* C8  Request precondition: request(R, T) changes slots only when neither *)
(* trip has a slot toward the other; on a pair that already has a          *)
(* relationship it changes no status, in particular not a matched one.     *)
(* ---------------------------------------------------------------------- *)
C8_RequestPrecondition ==
    LET R == last.tripId
        T == last.matchedTripId
    IN  (Observed("request") /\ R # T)
        => /\ trips # pre => (statusToward(pre, R, T) = NULL /\ statusToward(pre, T, R) = NULL)
           /\ \A x \in TripIds, i \in matchStatusFields :
                 pre[x].match_status[i] = "matched" => trips[x].match_status[i] = "matched"

(* ---------------------------------------------------------------------- *)
(* C9  Withdraw: withdraw(R, T) by R's owner empties R's slot toward T and *)
(* T's slot toward R when R's slot toward T is request_sent, and changes   *)
(* no slot when R's slot toward T has any other status.                    *)
(* ---------------------------------------------------------------------- *)
C9_WithdrawPrecondition ==
    LET R == last.tripId
        T == last.matchedTripId
    IN  (Observed("withdraw") /\ R # T /\ last.caller = OwnerOf(R))
        => IF statusToward(pre, R, T) = "request_sent"
           THEN statusToward(trips, R, T) = NULL /\ statusToward(trips, T, R) = NULL
           ELSE trips = pre

(* ---------------------------------------------------------------------- *)
(* C10  Remove: remove(R, T) changes the store only when R and T are       *)
(* matched on both sides; it then empties R's slot toward T and T's slot   *)
(* toward R and nothing else, whichever owner called.                      *)
(* ---------------------------------------------------------------------- *)
C10_RemoveMatchedOnly ==
    LET R == last.tripId
        T == last.matchedTripId
    IN  (Observed("remove") /\ R # T /\ last.caller \in {OwnerOf(R), OwnerOf(T)})
        => IF matchedBothSides(pre, R, T)
           THEN trips = withoutPair(pre, R, T)
           ELSE trips = pre

(* ---------------------------------------------------------------------- *)
(* C11  Request effect: request(R, T) by R's owner, when neither trip has  *)
(* a slot toward the other and each has an empty slot, answers ok, stores  *)
(* (T's owner, request_sent) in one previously empty slot of R and (R's    *)
(* owner, request_received) in one previously empty slot of T, and changes *)
(* no other slot of R or T and no other trip.                              *)
(* ---------------------------------------------------------------------- *)
C11_RequestEffect ==
    LET R == last.tripId
        T == last.matchedTripId
    IN  ( /\ Observed("request")
          /\ R # T
          /\ last.caller = pre[R].user_email
          /\ getSlotForEmail(pre[R], pre[T].user_email) = NotFound
          /\ getSlotForEmail(pre[T], pre[R].user_email) = NotFound
          /\ getEmptySlot(pre[R]) # NotFound
          /\ getEmptySlot(pre[T]) # NotFound )
        => /\ last.code = 200
           /\ \E i, j \in matchEmailFields :
                 /\ pre[R].match_email[i] = NULL /\ pre[R].match_status[i] = NULL
                 /\ pre[T].match_email[j] = NULL /\ pre[T].match_status[j] = NULL
                 /\ trips = [pre EXCEPT
                       ![R].match_email[i] = pre[T].user_email,
                       ![R].match_status[i] = "request_sent",
                       ![T].match_email[j] = pre[R].user_email,
                       ![T].match_status[j] = "request_received"]

\* a request between two trips that each already hold a slot toward a third
\* trip was answered ok
C11_Witness ==
    LET R == last.tripId
        T == last.matchedTripId
    IN  /\ Observed("request")
        /\ last.code = 200
        /\ R # T
        /\ last.caller = pre[R].user_email
        /\ getSlotForEmail(pre[R], pre[T].user_email) = NotFound
        /\ getSlotForEmail(pre[T], pre[R].user_email) = NotFound
        /\ \E i \in matchEmailFields : pre[R].match_email[i] # NULL
        /\ \E j \in matchEmailFields : pre[T].match_email[j] # NULL
        /\ statusToward(trips, R, T) = "request_sent"
        /\ statusToward(trips, T, R) = "request_received"

\* the number of slots of a row that hold a peer
occupiedCount(trip) ==
    Cardinality({i \in DOMAIN trip.match_email : trip.match_email[i] # NULL})

\* every slot of the row holds a peer
Full(trip) == getEmptySlot(trip) = NotFound

C13_CapacityAtomic ==
    LET T == last.tripId
        R == last.matchedTripId
        requestNeedsSlot ==
            /\ Observed("request")
            /\ \/ Full(pre[T]) /\ getSlotForEmail(pre[T], pre[R].user_email) = NotFound
               \/ Full(pre[R]) /\ getSlotForEmail(pre[R], pre[T].user_email) = NotFound
        acceptNeedsSlot ==
            /\ Observed("accept")
            /\ statusToward(pre, T, R) = "request_received"
            /\ statusToward(pre, R, T) = "request_sent"
            /\ \E P \in DOMAIN pre \ {T, R} :
                  /\ matchedBothSides(pre, R, P)
                  /\ Full(pre[P])
                  /\ getSlotForEmail(pre[P], pre[T].user_email) = NotFound
    IN  ( /\ last # NoCall
          /\ T # R
          /\ last.caller = pre[T].user_email
          /\ requestNeedsSlot \/ acceptNeedsSlot )
        => (last.code # 200 /\ trips = pre)

(* ---------------------------------------------------------------------- *)
(* C14  Rejections have no partial effect: a match-request call answered   *)
(* 401 (no or invalid token), 400 (missing action, tripId or               *)
(* matchedTripId, or unsupported action), 404 (a trip not found, or no     *)
(* relationship between the two trips) or 403 (caller does not own the     *)
(* trip) has written no trip.                                              *)
(* ---------------------------------------------------------------------- *)
C14_RejectionsWriteNothing ==
    (last # NoCall /\ last.code \in {400, 401, 403, 404}) => trips = pre

\* the owner of a trip that holds a vote slot toward another trip, which
\* holds none toward it, called withdraw and was answered 404
C14_Witness ==
    /\ Observed("withdraw")
    /\ last.code = 404
    /\ last.tripId \in DOMAIN pre
    /\ last.matchedTripId \in DOMAIN pre \ {last.tripId}
    /\ last.caller = pre[last.tripId].user_email
    /\ statusToward(pre, last.tripId, last.matchedTripId) = "partner_approval_needed"
    /\ statusToward(pre, last.matchedTripId, last.tripId) = NULL
    /\ trips = pre

(* ---------------------------------------------------------------------- *)
(* C15  Notification de-duplication: over any interleaving of notification *)
(* checks, at most one notification is sent for each directed pair         *)
(* (notified trip, matched trip).                                          *)
(* ---------------------------------------------------------------------- *)
C15_AtMostOnePerPair ==
    \A pair \in DOMAIN sent : sent[pair] <= 1

(* ---------------------------------------------------------------------- *)
(* C16  Baseline is write-once: the baseline of a trip is the value its    *)
(* first notification check wrote, whatever checks ran after it or at the  *)
(* same time.                                                              *)
(* ---------------------------------------------------------------------- *)
C16_BaselineWriteOnce ==
    \A t \in DOMAIN first_baseline :
        first_baseline[t] # NoTime => baseline_match_check_at[t] = first_baseline[t]

(* ---------------------------------------------------------------------- *)
(* C17  No notification about older trips: a notification check on trip X *)
(* sends X's owner a notification about a candidate only if the candidate  *)
(* was created after X's baseline, the value the check read from X's row   *)
(* or wrote to it.                                                         *)
(* ---------------------------------------------------------------------- *)
C17_OnlyNewerCandidates ==
    \A p \in Procs :
        checks[p].pc = "insertA" =>
            /\ checks[p].baseline # NoTime
            /\ created_at[checks[p].cand] > checks[p].baseline

\* a check has sent its trip's owner a mail about a candidate created after
\* the baseline, having passed over a compatible candidate created before it
C17_Witness ==
    \E p \in Procs :
        /\ checks[p].pc = "insertA"
        /\ baseline_match_check_at[checks[p].trip] = checks[p].baseline
        /\ \E d \in TripIds :
              /\ d \in selectCandidates(checks[p].trip)
              /\ compatible(checks[p].trip, d)
              /\ d \notin checks[p].remaining
              /\ created_at[d] <= checks[p].baseline
              /\ sent[<<checks[p].trip, d>>] = 0

(* ---------------------------------------------------------------------- *)
(* C18  Notifier failure isolation: a ledger record for a pair is written  *)
(* only after a send for that pair succeeded; a failed send writes no      *)
(* record and does not end the check, which responds only after the last   *)
(* compatible candidate was visited.                                       *)
(* ---------------------------------------------------------------------- *)
C18_FailureIsolation ==
    [][ /\ \A pair \in match_notifications' \ match_notifications : sent[pair] >= 1
        /\ \A p \in Procs :
              /\ ( /\ checks[p].pc \in {"sendA", "sendB"}
                    /\ checks'[p] # checks[p]
                    /\ sent' = sent )
                 => /\ match_notifications' = match_notifications
                    /\ checks'[p] # Idle => checks'[p].pc \in {"first", "second"}
              /\ (checks[p] # Idle /\ checks'[p] = Idle)
                 => \/ checks[p].pc = "select"
                    \/ checks[p].remaining = {checks[p].cand} ]_vars

\* in one check a send failed, no record of that pair was written, and a
\* later send of the same check succeeded
C18_Witness ==
    \E p \in Procs :
        /\ checks[p].pc \in {"insertA", "insertB"}
        /\ checks[p].failed # {}
        /\ checks[p].failed \cap match_notifications = {}

\* trips x and y ride together: same direction and flight date, and each
\* holds a matched slot with the other's owner
matchedTogether(db, x, y) ==
    /\ x # y
    /\ db[x].direction = db[y].direction
    /\ db[x].flight_date = db[y].flight_date
    /\ matchedBothSides(db, x, y)

\* trips x and y of one direction and flight date, one of which holds a
\* matched slot with the other's owner
matchedSlotBetween(db, x, y) ==
    /\ x # y
    /\ db[x].direction = db[y].direction
    /\ db[x].flight_date = db[y].flight_date
    /\ (holdsToward(db, x, y, "matched") \/ holdsToward(db, y, x, "matched"))

\* the step is the observed status sync, answered ok
SyncObserved ==
    /\ last.action = "none"
    /\ last'.action = "trip-status-sync"
    /\ last'.code = 200

(* ---------------------------------------------------------------------- *)
(* C19  Status stays aligned across matched riders: in every state reached *)
(* by accepts, status changes and trip edits, any two trips that are       *)
(* matched with each other have the same stored trip status.               *)
(* ---------------------------------------------------------------------- *)
C19_StatusAligned ==
    \A x, y \in DOMAIN trips :
        matchedTogether(trips, x, y) => trip_status[x] = trip_status[y]

(* ---------------------------------------------------------------------- *)
(* C20  Status sync is exactly one hop: a status sync by the owner of trip *)
(* X with a matched-category value v sets the status to v on X and on      *)
(* every trip matched with X, and changes the status of no trip that has   *)
(* no matched slot with X itself (peers of peers, and trips matched only   *)
(* with a different trip of X's owner, keep their status).                 *)
(* ---------------------------------------------------------------------- *)
C20_SyncOneHop ==
    [][SyncObserved =>
          LET X == last'.tripId
              v == trip_status'[X]
          IN  /\ v \in MATCHED_TRIP_STATUS_OPTIONS
              /\ \A t \in DOMAIN trips :
                    matchedTogether(trips, t, X) => trip_status'[t] = v
              /\ \A t \in DOMAIN trips \ {X} :
                    ~matchedSlotBetween(trips, t, X) => trip_status'[t] = trip_status[t]]_vars

\* the status the trips page shows for stored trip t
shownStatus(t) == derivedTripStatus(trips[t], trip_status[t])

\* what the page shows follows the slots: never unmatched with a matched
\* slot, satisfied exactly when that value is stored, unmatched without one
ShownFollowsSlots ==
    \A t \in DOMAIN trips :
        IF hasConfirmedMatch(trips[t])
        THEN shownStatus(t) = (IF trip_status[t] = "Matched and satisfied"
                               THEN "Matched and satisfied"
                               ELSE "Matched and still looking")
        ELSE shownStatus(t) = "Unmatched (looking for matches)"

(* ---------------------------------------------------------------------- *)
(* C21  Unmatched is derived, not settable: a trip with a matched slot is  *)
(* never shown as unmatched (satisfied when that value is stored, looking  *)
(* otherwise), a trip without a matched slot is shown as unmatched, and no *)
(* operation that sets statuses puts the unmatched value on a trip that    *)
(* has a matched slot.                                                     *)
(* ---------------------------------------------------------------------- *)
C21_UnmatchedNotSettable ==
    [][ /\ ShownFollowsSlots
        /\ \A t \in DOMAIN trips :
              ( /\ hasConfirmedMatch(trips[t])
                /\ hasConfirmedMatch(trips'[t])
                /\ trip_status'[t] = "Unmatched (looking for matches)" )
              => trip_status[t] = "Unmatched (looking for matches)" ]_vars

\* the route has computed the compatible candidates of trip t
Filtered(t) == t \in DOMAIN view

\* does the partner filter admit the category?  Any admits every category,
\* a restrictive filter its own category only
Admits(filter, category) ==
    \/ filter = "Any"
    \/ (filter = "Male only" /\ category = "Male")
    \/ (filter = "Female only" /\ category = "Female")
    \/ (filter = "Non-binary only" /\ category = "Non-binary")

hasWindow(trip) == trip.window_start # NoTime /\ trip.window_end # NoTime

(* ---------------------------------------------------------------------- *)
(* C22  Compatibility is symmetric: for all pairs of trips A and B, B is   *)
(* a compatible candidate of A exactly when A is one of B.                 *)
(* ---------------------------------------------------------------------- *)
C22_CompatibilitySymmetric ==
    \A a, b \in DOMAIN trips :
        (Filtered(a) /\ Filtered(b)) => ((b \in view[a]) <=> (a \in view[b]))

\* both lists are computed and the two trips are compatible, one of them
\* with a restrictive filter
C22_Witness ==
    /\ Filtered(1) /\ Filtered(2)
    /\ 2 \in view[1]
    /\ trips[1].allowed_partner_sex # "Any"
    /\ trips[2].allowed_partner_sex = "Any"

C25_NoWindowOverlaps ==
    \A a, b \in DOMAIN trips :
        ( /\ Filtered(a) /\ a # b
          /\ trips[a].direction = trips[b].direction
          /\ trips[a].flight_date = trips[b].flight_date
          /\ hasWindow(trips[a])
          /\ ~hasWindow(trips[b])
          /\ trips[a].window_start <= trips[b].flight_time
          /\ trips[b].flight_time <= trips[a].window_end
          /\ Admits(trips[a].allowed_partner_sex, trips[b].sex)
          /\ Admits(trips[b].allowed_partner_sex, trips[a].sex) )
        => b \in view[a]

\* the step is a submit of the trip form whose outcome the form shows
FormSubmitted == view = NoView /\ view' # NoView /\ view'.page = "plan"

\* the hour texts of the form read as numbers with max >= min >= 0
HoursInOrder(form) ==
    LET lo == parseHours(form.minHoursBefore)
        hi == parseHours(form.maxHoursBefore)
    IN  lo.finite /\ hi.finite /\ 0 <= lo.hours /\ lo.hours <= hi.hours

\* the day after a date of the model
NextDate(dateValue) ==
    IF dateValue = "2024-05-10" THEN "2024-05-11" ELSE "2024-05-12"

\* the submit is refused as a second trip of its direction and date
RefusedAsDuplicate(db, submit) ==
    \E t \in DOMAIN db :
        /\ t # submit.editingTripId
        /\ db[t].user_email = submit.email
        /\ db[t].direction = submit.form.direction
        /\ db[t].flight_date = submit.form.flightDate

(* ---------------------------------------------------------------------- *)
(* C24  Window computation on save: a departure whose hours satisfy        *)
(* maxHoursBefore >= minHoursBefore >= 0 gets the window [flight time      *)
(* minus maxHoursBefore, flight time minus minHoursBefore] (14:00 with 2   *)
(* and 4 gives [10:00, 12:00]); any other hour pair is rejected and        *)
(* nothing is stored; an arrival gets [arrival time, wait-until time],     *)
(* the wait-until time on the next day when it is earlier than the         *)
(* arrival; every stored window has start <= end.                          *)
(* ---------------------------------------------------------------------- *)
C24_WindowOnSave ==
    [][FormSubmitted =>
          LET form == view'.form
              row == trips'[view'.saved]
              flight == toDateTimeEST(form.flightDate, form.flightTime)
              sameDay == toDateTimeEST(form.flightDate, form.willingToWaitUntil)
              nextDay == toDateTimeEST(NextDate(form.flightDate),
                                       form.willingToWaitUntil)
          IN  /\ (form.direction = "Departing Pittsburgh" /\ HoursInOrder(form))
                 => IF RefusedAsDuplicate(trips, view')
                    THEN view'.saved = 0
                    ELSE /\ view'.saved # 0
                         /\ row.window_start =
                               flight - 60 * parseHours(form.maxHoursBefore).hours
                         /\ row.window_end =
                               flight - 60 * parseHours(form.minHoursBefore).hours
                         /\ ( /\ form.flightTime = <<14, 0>>
                              /\ form.minHoursBefore = "2"
                              /\ form.maxHoursBefore = "4" )
                            => /\ row.window_start =
                                     toDateTimeEST(form.flightDate, <<10, 0>>)
                               /\ row.window_end =
                                     toDateTimeEST(form.flightDate, <<12, 0>>)
              /\ (form.direction = "Departing Pittsburgh" /\ ~HoursInOrder(form))
                 => (view'.saved = 0 /\ trips' = trips /\ created_at' = created_at)
              /\ (form.direction = "Arriving to Pittsburgh" /\ view'.saved # 0)
                 => /\ row.window_start = flight
                    /\ row.window_end = IF sameDay < flight THEN nextDay ELSE sameDay
              /\ \A t \in DOMAIN trips' :
                    created_at'[t] # NoTime
                    => trips'[t].window_start <= trips'[t].window_end]_vars

\* the departure at 14:00 with 2 and 4 hours has been saved with the window
\* from 10:00 to 12:00
C24_Witness ==
    /\ view # NoView
    /\ view.page = "plan"
    /\ view.saved # 0
    /\ view.form.flightTime = <<14, 0>>
    /\ view.form.minHoursBefore = "2"
    /\ view.form.maxHoursBefore = "4"
    /\ trips[view.saved].window_start = toDateTimeEST(view.form.flightDate, <<10, 0>>)
    /\ trips[view.saved].window_end = toDateTimeEST(view.form.flightDate, <<12, 0>>)

(* ---------------------------------------------------------------------- *)
(* C26  No duplicate trips: at all times each owner has at most one trip   *)
(* per direction and date; every save that would create a second one is    *)
(* rejected, the edit of that same trip in place excepted.                 *)
(* ---------------------------------------------------------------------- *)
C26_NoDuplicateTrips ==
    \A t, u \in DOMAIN trips :
        ( /\ Stored(t) /\ Stored(u)
          /\ trips[t].user_email = trips[u].user_email
          /\ trips[t].direction = trips[u].direction
          /\ trips[t].flight_date = trips[u].flight_date )
        => t = u

(* ---------------------------------------------------------------------- *)
(* C27  Deletion window: the owner can delete a trip while the trip's      *)
(* window has not fully elapsed, and deletion is blocked once the window's *)
(* end is in the past, for departures and for arrivals, those whose        *)
(* wait-until time was rolled to the next day included.                    *)
(* ---------------------------------------------------------------------- *)
CanDelete(t) == ~tripComplete(trips[t])

C27_DeletionWindow ==
    \A t \in DOMAIN trips :
        (Stored(t) /\ hasWindow(trips[t]))
        => (CanDelete(t) <=> ~(trips[t].window_end < now))

\* the same for the trips whose window ends at the cutoff the page reads:
\* departures that may arrive at the gate at flight time, and arrivals
\* whose wait-until time is on the day of arrival
EndsAtCutoff(t) ==
    trips[t].window_end =
        toDateTimeEST(trips[t].flight_date, completeCutoffTime(trips[t]))

DeletionWindowAtCutoff ==
    \A t \in DOMAIN trips :
        (Stored(t) /\ hasWindow(trips[t]) /\ EndsAtCutoff(t))
        => (CanDelete(t) <=> ~(trips[t].window_end < now))

\* the trips page has computed the lists of a trip
Listed == view # NoView /\ view.page = "trips"

\* the place of a candidate in a list
placeIn(list, c) == Min({i \in DOMAIN list : list[i] = c})

\* the list holds trips of other owners with the direction and date of t
OnlyCandidatesOf(t, list) ==
    \A i \in DOMAIN list :
        /\ trips[list[i]].user_email # trips[t].user_email
        /\ trips[list[i]].direction = trips[t].direction
        /\ trips[list[i]].flight_date = trips[t].flight_date

\* ascending by the time difference to t; ties in the order of the input
SortedFrom(t, list, input) ==
    \A i, j \in DOMAIN list :
        i < j =>
            /\ diffOf(t, list[i]) <= diffOf(t, list[j])
            /\ diffOf(t, list[i]) = diffOf(t, list[j])
               => placeIn(input, list[i]) < placeIn(input, list[j])

(* ---------------------------------------------------------------------- *)
(* C28  Candidate ordering: the candidate list computed for an anchor trip *)
(* contains only trips of other owners that share the anchor's direction   *)
(* and date, and is ordered ascending by the absolute difference between   *)
(* the candidate's and the anchor's scheduled time, candidates with equal  *)
(* difference keeping their input order.  Checked for the list the fetch   *)
(* sorts (input: the rows of the query) and for the list the card sorts    *)
(* (input: the list the fetch returned).                                   *)
(* ---------------------------------------------------------------------- *)
C28_CandidateOrdering ==
    Listed =>
        /\ OnlyCandidatesOf(view.trip, view.enriched)
        /\ SortedFrom(view.trip, view.enriched, view.data)
        /\ OnlyCandidatesOf(view.trip, view.tripMatches)
        /\ SortedFrom(view.trip, view.tripMatches, view.matches)

\* three candidates listed for row 1, the query's order changed by the sort,
\* two of them at the same difference and one closer, while the table holds
\* no other row that the list could take
C28_Witness ==
    /\ Listed
    /\ view.trip = 1
    /\ Len(view.enriched) = 3
    /\ view.enriched # view.data
    /\ diffOf(1, view.enriched[1]) = diffOf(1, view.enriched[2])
    /\ trips[view.enriched[1]].flight_time # trips[view.enriched[2]].flight_time
    /\ diffOf(1, view.enriched[2]) < diffOf(1, view.enriched[3])
    /\ Len(view.tripMatches) = 2

\* does trip x hold any slot with y's owner?
hasSlotToward(db, x, y) == getSlotForEmail(db[x], db[y].user_email) # NotFound

\* the observed call is a vote of trip V on the join of trip J: V holds
\* partner_approval_needed toward J, and J does not hold it toward V
VoteObserved(action) ==
    /\ Observed(action)
    /\ last.code = 200
    /\ last.tripId # last.matchedTripId
    /\ statusToward(pre, last.tripId, last.matchedTripId) = "partner_approval_needed"
    /\ statusToward(pre, last.matchedTripId, last.tripId) # "partner_approval_needed"

\* a pool member whose join with trip J awaited the vote of trip V in store
\* db: a trip of V's direction and date, matched toward V, that holds
\* partner_approval_needed toward J as J does toward it
PendingMember(db, M, V, J) ==
    /\ db[M].direction = db[V].direction
    /\ db[M].flight_date = db[V].flight_date
    /\ statusToward(db, M, V) = "matched"
    /\ statusToward(db, M, J) = "partner_approval_needed"
    /\ statusToward(db, J, M) = "partner_approval_needed"

PendingMembers(db, V, J) == {M \in DOMAIN db : PendingMember(db, M, V, J)}

\* a trip whose owner is among the matched partners of trip M, of M's
\* direction and date
MatchedPartnerOf(db, P, M) ==
    /\ db[P].user_email \in getMatchedPartners(db[M])
    /\ db[P].direction = db[M].direction
    /\ db[P].flight_date = db[M].flight_date

\* nothing of the join of M and J is left in store db
RolledBack(db, M, J) ==
    /\ ~hasSlotToward(db, M, J)
    /\ ~hasSlotToward(db, J, M)
    /\ \A P \in DOMAIN db :
          MatchedPartnerOf(db, P, M)
          => statusToward(db, P, J) # "partner_approval_needed"

(* ---------------------------------------------------------------------- *)
(* C29  Deny as a pool vote rolls the join back completely: when trip V    *)
(* denies on its partner_approval_needed vote slot toward trip J (J        *)
(* holding no partner_approval_needed slot toward V), then after the call  *)
(* V has no slot toward J, and for a pool member M whose pending join it   *)
(* was, M and J have no slots toward each other and no matched partner of  *)
(* M holds a partner_approval_needed slot toward J, whichever trip the     *)
(* requester search returned.                                              *)
(* ---------------------------------------------------------------------- *)
C29_DenyRollsBack ==
    VoteObserved("deny") =>
        LET V == last.tripId
            J == last.matchedTripId
        IN  /\ ~hasSlotToward(trips, V, J)
            /\ PendingMembers(pre, V, J) # {}
               => \E M \in PendingMembers(pre, V, J) : RolledBack(trips, M, J)

\* the same for every pool member whose join with J awaited V's vote
DenyRollsBackEveryJoin ==
    VoteObserved("deny") =>
        \A M \in PendingMembers(pre, last.tripId, last.matchedTripId) :
            RolledBack(trips, M, last.matchedTripId)

\* after the observed call, does a matched partner of trip M still hold
\* partner_approval_needed toward trip J?
VoteOutstanding(M, J) ==
    \E P \in DOMAIN pre :
        /\ MatchedPartnerOf(pre, P, M)
        /\ statusToward(trips, P, J) = "partner_approval_needed"

\* the join of M and J after the observed call: confirmed when no vote is
\* outstanding, else still awaiting approval
JoinResolved(M, J) ==
    IF VoteOutstanding(M, J)
    THEN /\ statusToward(trips, M, J) = "partner_approval_needed"
         /\ statusToward(trips, J, M) = "partner_approval_needed"
    ELSE /\ statusToward(trips, M, J) = "matched"
         /\ statusToward(trips, J, M) = "matched"

(* ---------------------------------------------------------------------- *)
(* C30  Vote resolution on accept: when trip V accepts on its              *)
(* partner_approval_needed vote slot toward trip J, V's slot toward J is   *)
(* cleared; every trip M of the same direction and date that is matched    *)
(* toward V and awaits approval of its join with J has its slot toward J   *)
(* and J's slot toward it matched exactly when no matched partner of M     *)
(* still holds a partner_approval_needed slot toward J, and otherwise      *)
(* both slots stay partner_approval_needed.                                *)
(* ---------------------------------------------------------------------- *)
C30_VoteResolution ==
    VoteObserved("accept") =>
        LET V == last.tripId
            J == last.matchedTripId
        IN  /\ ~hasSlotToward(trips, V, J)
            /\ \A M \in PendingMembers(pre, V, J) : JoinResolved(M, J)

\* the same when one join only awaited the vote
VoteResolutionOfOneJoin ==
    ( /\ VoteObserved("accept")
      /\ Cardinality(PendingMembers(pre, last.tripId, last.matchedTripId)) = 1 )
    => /\ ~hasSlotToward(trips, last.tripId, last.matchedTripId)
       /\ \A M \in PendingMembers(pre, last.tripId, last.matchedTripId) :
             JoinResolved(M, last.matchedTripId)

\* the slots of trip P that do not reference the owner of trip T are in
\* store db2 what they were in store db1
OtherSlotsKept(db1, db2, P, T) ==
    \A i \in matchEmailFields :
        db1[P].match_email[i] # db1[T].user_email
        => /\ db2[P].match_email[i] = db1[P].match_email[i]
           /\ db2[P].match_status[i] = db1[P].match_status[i]

\* the observed call is a successful withdraw(R, T) of a trip R that has
\* a matched partner P other than T
WithdrawnWithPartner(P) ==
    /\ Observed("withdraw")
    /\ last.code = 200
    /\ P \notin {last.tripId, last.matchedTripId}
    /\ MatchedPartnerOf(pre, P, last.tripId)

(* ---------------------------------------------------------------------- *)
(* C31  Withdraw cascade: after a successful withdraw(R, T) where R has    *)
(* other matched partners, none of those partners' trips (same direction   *)
(* and date as R) holds a partner_approval_needed slot referencing T's     *)
(* owner, and no slot of those partners toward any other peer has changed. *)
(* ---------------------------------------------------------------------- *)
C31_WithdrawCascade ==
    \A P \in DOMAIN pre :
        WithdrawnWithPartner(P) =>
            /\ ~holdsToward(trips, P, last.matchedTripId, "partner_approval_needed")
            /\ OtherSlotsKept(pre, trips, P, last.matchedTripId)

\* a partner's vote slot toward T's owner was there and the withdraw of the
\* joining member has cleared it
C31_Witness ==
    \E P \in DOMAIN pre :
        /\ WithdrawnWithPartner(P)
        /\ holdsToward(pre, P, last.matchedTripId, "partner_approval_needed")
        /\ statusToward(pre, last.tripId, last.matchedTripId) = "partner_approval_needed"
        /\ ~hasSlotToward(trips, P, last.matchedTripId)

(* ---------------------------------------------------------------------- *)
(* C32  Retry repairs a half-applied transition: when a store failure cuts *)
(* a two-trip transition (request, accept, withdraw, deny or remove) after *)
(* its first write, the call answers with an error, and the same call sent *)
(* again with the same arguments answers ok and leaves the two trips       *)
(* mirror-consistent in the target state of the transition.                *)
(* ---------------------------------------------------------------------- *)

\* the failed call kept in view was cut between its two writes
CutAfterFirstWrite ==
    /\ view # NoView
    /\ view.page = "match-requests"
    /\ view.point = "secondWrite"

\* the observed call is the failed call, sent again with the same arguments
SameCallAgain ==
    /\ last.action = view.action
    /\ last.caller = view.caller
    /\ last.tripId = view.tripId
    /\ last.matchedTripId = view.matchedTripId

\* the cut call was sent again and has been answered
Retried == CutAfterFirstWrite /\ SameCallAgain

\* the state the two rows are in once the transition is complete
TargetState(db, action, x, y) ==
    CASE action = "request" ->
            /\ statusToward(db, x, y) = "request_sent"
            /\ statusToward(db, y, x) = "request_received"
      [] action = "accept" ->
            /\ statusToward(db, x, y) \in {"matched", "partner_approval_needed"}
            /\ statusToward(db, y, x) = statusToward(db, x, y)
      [] OTHER ->
            /\ ~hasSlotToward(db, x, y)
            /\ ~hasSlotToward(db, y, x)

\* the status of the caller's slot from which each transition starts
StartsFrom ==
    [request |-> NULL, accept |-> "request_received", withdraw |-> "request_sent",
     deny |-> "request_received", remove |-> "matched"]

\* the status the mirror slot then has
MirrorOf ==
    [request |-> NULL, accept |-> "request_sent", withdraw |-> "request_received",
     deny |-> "request_sent", remove |-> "matched"]

\* the cut call was a transition of a pair that was in the state the
\* transition starts from
CutTransition ==
    /\ CutAfterFirstWrite
    /\ statusToward(view.before, view.tripId, view.matchedTripId) = StartsFrom[view.action]
    /\ statusToward(view.before, view.matchedTripId, view.tripId) = MirrorOf[view.action]

C32_RetryRepairs ==
    /\ CutTransition => view.code # 200
    /\ (CutTransition /\ SameCallAgain) =>
          /\ last.code = 200
          /\ TargetState(trips, view.action, view.tripId, view.matchedTripId)

\* the cut call was a request on a pair without slots, or the accept of a
\* request received from a trip that has no confirmed partner
CutWhileFilling ==
    \/ /\ view.action = "request"
       /\ ~hasSlotToward(view.before, view.tripId, view.matchedTripId)
       /\ ~hasSlotToward(view.before, view.matchedTripId, view.tripId)
    \/ /\ view.action = "accept"
       /\ statusToward(view.before, view.tripId, view.matchedTripId) = "request_received"
       /\ statusToward(view.before, view.matchedTripId, view.tripId) = "request_sent"
       /\ getMatchedPartners(view.before[view.matchedTripId]) = {}

\* the same for the transitions that fill or promote slots
RetryRepairsDirectFilling ==
    (Retried /\ CutWhileFilling) =>
        /\ last.code = 200
        /\ TargetState(trips, view.action, view.tripId, view.matchedTripId)

RetryRepairsWitness ==
    /\ Retried
    /\ CutWhileFilling
    /\ view.action = "accept"
    /\ matchedBothSides(trips, view.tripId, view.matchedTripId)

\* the retry of the accept of a request from a trip with a confirmed partner
\* is taken for a vote: it clears the caller's slot and answers ok
RetryOfPoolAcceptIsAVote ==
    ( /\ Retried
      /\ view.action = "accept"
      /\ statusToward(view.before, view.tripId, view.matchedTripId) = "request_received"
      /\ statusToward(view.before, view.matchedTripId, view.tripId) = "request_sent"
      /\ getMatchedPartners(view.before[view.matchedTripId]) # {} ) =>
        /\ last.code = 200
        /\ ~hasSlotToward(trips, view.tripId, view.matchedTripId)

\* a retried withdraw, deny or remove is refused and the mirror slot stays
RetryOfClearingIsRefused ==
    (Retried /\ view.action \in {"withdraw", "deny", "remove"}) =>
        /\ last.code = 404
        /\ ~hasSlotToward(trips, view.tripId, view.matchedTripId)
        /\ hasSlotToward(trips, view.matchedTripId, view.tripId)

(* ---------------------------------------------------------------------- *)
(* C33  No silent half-completion: a match-request call or a status-sync   *)
(* call during which a store read or a store write fails answers with an   *)
(* error, never with ok.                                                   *)
(* ---------------------------------------------------------------------- *)

\* a call during which a store call failed has been answered
FailureAnswered(page) == view # NoView /\ view.page = page

\* the store is as a call without failure leaves it
FullyApplied ==
    IF view.page = "match-requests"
    THEN \E r \in POST(view.before, view.caller, view.action, view.tripId,
                       view.matchedTripId) : r.code = 200 /\ r.db = trips
    ELSE trip_status = tripStatusSync(trips, view.before,
                           accessToken(trips[view.tripId].user_email),
                           view.tripId, view.value).column

\* the failed call was a transition of a pair that was in a state the
\* transition starts from: as for a cut transition, and for withdraw also a
\* pair that awaits the approval of the partners
FailedTransition ==
    /\ FailureAnswered("match-requests")
    /\ LET mine == statusToward(view.before, view.tripId, view.matchedTripId)
           theirs == statusToward(view.before, view.matchedTripId, view.tripId)
       IN  \/ mine = StartsFrom[view.action] /\ theirs = MirrorOf[view.action]
           \/ /\ view.action = "withdraw"
              /\ mine = "partner_approval_needed"
              /\ theirs = "partner_approval_needed"

\* the failed call was a status sync of a trip with a confirmed match
FailedSync ==
    /\ FailureAnswered("trip-status-sync")
    /\ hasConfirmedMatch(trips[view.tripId])

C33_NoSilentHalfCompletion ==
    ((FailedTransition \/ FailedSync) /\ view.code = 200) => FullyApplied

\* a failed updateTrip of the match-request route is answered with 500
WriteFailureIsAnError ==
    (FailureAnswered("match-requests") /\ view.point \in {"firstWrite", "secondWrite"})
        => view.code = 500

WriteFailureWitness ==
    /\ FailureAnswered("match-requests")
    /\ view.point = "secondWrite"
    /\ view.action = "request"
    /\ trips # view.before

\* a failed select inside an action of the match-request route
LookupFailureIsAnError ==
    (FailedTransition /\ view.point = "lookup" /\ view.code = 200)
        => FullyApplied

\* a failed update of the status-sync route
SyncUpdateFailureIsAnError ==
    (FailedSync /\ view.failed # {} /\ view.code = 200)
        => FullyApplied

\* a failed select of the matched rows of the status-sync route is answered
\* with 500 and nothing is written
SyncLookupFailureIsAnError ==
    (FailureAnswered("trip-status-sync") /\ view.lookupFails)
        => (view.code = 500 /\ trip_status = view.before)

SyncLookupFailureWitness ==
    /\ FailureAnswered("trip-status-sync")
    /\ view.lookupFails
    /\ matchedBothSides(trips, 1, 2)
    /\ view.tripId = 1

(* ---------------------------------------------------------------------- *)
(* C34  A confirmed match is not disturbed by third parties: while trips A *)
(* and B are matched with each other, no call whose pair (tripId,          *)
(* matchedTripId) is not {A, B} changes the email or the status of A's     *)
(* slot toward B or of B's slot toward A.                                  *)
(* ---------------------------------------------------------------------- *)

\* the slots of trip x that name the owner of trip y, with their statuses
slotsToward(db, x, y) ==
    {<<i, db[x].match_status[i]>> : i \in {j \in matchEmailFields :
        db[x].match_email[j] = db[y].user_email}}

\* the observed call is one that the status of the caller's slot calls for:
\* the answer to a received request or a vote, the withdrawal of a sent
\* request or of a pending join, the removal of a match, or any request
CallInOrder ==
    /\ last.action \in Actions
    /\ {last.tripId, last.matchedTripId} \subseteq DOMAIN pre
    /\ LET mine == statusToward(pre, last.tripId, last.matchedTripId)
       IN  CASE last.action \in {"accept", "deny"} ->
                    mine \in {"request_received", "partner_approval_needed"}
             [] last.action = "withdraw" ->
                    mine \in {"request_sent", "partner_approval_needed"}
             [] last.action = "remove" -> mine = "matched"
             [] OTHER -> TRUE

\* the observed call is such a call on another pair than {A, B}
ThirdPartyCall(A, B) ==
    /\ A # B
    /\ CallInOrder
    /\ {last.tripId, last.matchedTripId} # {A, B}
    /\ matchedBothSides(pre, A, B)

C34_ConfirmedMatchUndisturbed ==
    \A A \in DOMAIN pre, B \in DOMAIN pre :
        ThirdPartyCall(A, B) =>
            /\ slotsToward(trips, A, B) = slotsToward(pre, A, B)
            /\ slotsToward(trips, B, A) = slotsToward(pre, B, A)

\* the same for the calls other than accept and deny
ThirdPartyRequestsKeepMatch ==
    \A A \in DOMAIN pre, B \in DOMAIN pre :
        (ThirdPartyCall(A, B) /\ last.action \in {"request", "withdraw", "remove"}) =>
            /\ slotsToward(trips, A, B) = slotsToward(pre, A, B)
            /\ slotsToward(trips, B, A) = slotsToward(pre, B, A)

(* ---------------------------------------------------------------------- *)
(* C35  Slot integrity under interleaving: in every reachable state, the   *)
(* states between the store writes of concurrent calls on one pair         *)
(* included, each of the six slots of a trip has its peer email and its    *)
(* status either both empty or both set.                                   *)
(* ---------------------------------------------------------------------- *)

SlotWhole(trip, i) == (trip.match_email[i] = NULL) <=> (trip.match_status[i] = NULL)

SlotIntegrity == \A t \in DOMAIN trips : \A i \in matchEmailFields : SlotWhole(trips[t], i)

\* the call read a slot status that calls for its action
RacerInOrder(c) ==
    LET mine == IF view[c].requesterSlot = NotFound THEN NULL
                ELSE view[c].trip.match_status[view[c].requesterSlot]
    IN  CASE view[c].action \in {"accept", "deny"} ->
                mine \in {"request_received", "partner_approval_needed"}
          [] view[c].action = "withdraw" ->
                mine \in {"request_sent", "partner_approval_needed"}
          [] view[c].action = "remove" -> mine = "matched"
          [] OTHER -> mine = NULL

C35_SlotIntegrityInterleaved ==
    (\A c \in DOMAIN view : view[c].pc # "idle" => RacerInOrder(c)) => SlotIntegrity

\* a call that runs alone leaves the store that the handler leaves
AloneAsServed ==
    \A c \in DOMAIN view :
        ( /\ view[c].pc = "done"
          /\ \A d \in DOMAIN view \ {c} : view[d].pc = "idle" ) =>
            \E r \in POST(pre, view[c].caller, view[c].action, view[c].trip.id,
                          view[c].matchTrip.id) : r.code = 200 /\ r.db = trips

AloneWitness ==
    /\ view[1].pc = "done"
    /\ view[2].pc = "idle"
    /\ view[1].action = "withdraw"
    /\ trips # pre


\* the accept of the recipient and the withdraw of the sender have both
\* been answered, and a slot is left with a status and no email
AcceptRacesWithdraw ==
    /\ pre = RequestedStore
    /\ view[1].pc = "done" /\ view[1].action = "accept" /\ view[1].caller = EmailOf[2]
    /\ view[2].pc = "done" /\ view[2].action = "withdraw" /\ view[2].caller = EmailOf[1]
    /\ \E t \in {1, 2} : \E i \in matchEmailFields :
          trips[t].match_email[i] = NULL /\ trips[t].match_status[i] = "matched"

(* ---------------------------------------------------------------------- *)
(* C36  No orphan vote slots: after every completed call, whenever a trip  *)
(* Q holds a partner_approval_needed slot toward a trip J that holds none  *)
(* toward Q, some trip M that is matched with Q holds a                    *)
(* partner_approval_needed slot toward J; a withdraw or deny by either     *)
(* trip of the pending pair leaves no vote slot of a partner behind.       *)
(* ---------------------------------------------------------------------- *)

\* Q holds a vote slot on J: a pending slot that J does not mirror
VoteSlot(db, Q, J) ==
    /\ Q # J
    /\ holdsToward(db, Q, J, "partner_approval_needed")
    /\ ~holdsToward(db, J, Q, "partner_approval_needed")

\* the member of Q's pool whose join with J the vote is about
Sponsor(db, Q, J, M) ==
    /\ M \notin {Q, J}
    /\ matchedBothSides(db, M, Q)
    /\ holdsToward(db, M, J, "partner_approval_needed")

NoOrphanVotes(db) ==
    \A Q \in DOMAIN db, J \in DOMAIN db :
        VoteSlot(db, Q, J) => \E M \in DOMAIN db : Sponsor(db, Q, J, M)

\* the observed call is a withdraw or a deny by one trip of the pending pair
\* {x, y}, whose join awaits the vote of p, and it was answered ok
PendingPairEnded(x, y, p) ==
    /\ last.action \in {"withdraw", "deny"}
    /\ last.code = 200
    /\ {last.tripId, last.matchedTripId} = {x, y}
    /\ JoinPending(pre, x, y, p)
    /\ NoOrphanVotes(pre)

C36_NoOrphanVoteSlots ==
    \A x \in DOMAIN pre, y \in DOMAIN pre, p \in DOMAIN pre :
        PendingPairEnded(x, y, p) =>
            /\ ~holdsToward(trips, p, x, "partner_approval_needed")
            /\ NoOrphanVotes(trips)

\* the withdraw of the pool member who asked the joiner clears the votes
WithdrawBySponsorClearsVotes ==
    \A Q \in DOMAIN pre :
        ( /\ Observed("withdraw") /\ last.code = 200
          /\ NoOrphanVotes(pre)
          /\ Q \notin {last.tripId, last.matchedTripId}
          /\ Sponsor(pre, Q, last.matchedTripId, last.tripId) )
        => ~VoteSlot(trips, Q, last.matchedTripId)

WithdrawBySponsorWitness ==
    /\ Observed("withdraw") /\ last.code = 200
    /\ NoOrphanVotes(pre)
    /\ \E Q \in DOMAIN pre \ {last.tripId, last.matchedTripId} :
          /\ Sponsor(pre, Q, last.matchedTripId, last.tripId)
          /\ VoteSlot(pre, Q, last.matchedTripId)
    /\ NoOrphanVotes(trips)

(* ---------------------------------------------------------------------- *)
(* C37  A one-sided slot can only be touched by request: when trip X holds *)
(* a slot toward trip Y with status request_sent, request_received or      *)
(* matched and Y holds no slot toward X, a withdraw, accept, deny or       *)
(* remove on the pair, for either trip, is answered 404 and changes no     *)
(* slot.                                                                   *)
(* ---------------------------------------------------------------------- *)

OneSided(db, X, Y) ==
    /\ X # Y
    /\ statusToward(db, X, Y) \in {"request_sent", "request_received", "matched"}
    /\ ~hasSlotToward(db, Y, X)

\* the observed call is an action other than request on the pair {X, Y},
\* made by a caller the authorization rule lets through
CalledOnPair(X, Y) ==
    /\ last.action \in {"withdraw", "accept", "deny", "remove"}
    /\ {last.tripId, last.matchedTripId} = {X, Y}
    /\ Entitled

C37_OneSidedSlotOnlyByRequest ==
    \A X \in DOMAIN pre, Y \in DOMAIN pre :
        (OneSided(pre, X, Y) /\ CalledOnPair(X, Y)) =>
            /\ last.code = 404
            /\ trips = pre

C37_Witness ==
    \E X \in DOMAIN pre, Y \in DOMAIN pre :
        /\ OneSided(pre, X, Y)
        /\ CalledOnPair(X, Y)
        /\ last.action = "remove"
        /\ last.tripId = X
        /\ statusToward(pre, X, Y) = "matched"
        /\ last.code = 404
        /\ OneSided(trips, X, Y)

\* each of the four actions meets a one-sided slot from the side of its holder
OneSidedWitnessAccept ==
    \E X \in DOMAIN pre, Y \in DOMAIN pre :
        OneSided(pre, X, Y) /\ CalledOnPair(X, Y) /\ last.action = "accept" /\ last.tripId = X

OneSidedWitnessDeny ==
    \E X \in DOMAIN pre, Y \in DOMAIN pre :
        OneSided(pre, X, Y) /\ CalledOnPair(X, Y) /\ last.action = "deny" /\ last.tripId = X

OneSidedWitnessWithdraw ==
    \E X \in DOMAIN pre, Y \in DOMAIN pre :
        OneSided(pre, X, Y) /\ CalledOnPair(X, Y) /\ last.action = "withdraw" /\ last.tripId = X

\* a request on the pair is served and gives the slot its mirror
OneSidedWitnessRequest ==
    \E X \in DOMAIN pre, Y \in DOMAIN pre :
        /\ OneSided(pre, X, Y)
        /\ last.action = "request" /\ last.tripId = X /\ last.matchedTripId = Y
        /\ last.code = 200
        /\ hasSlotToward(trips, Y, X)

(* ---------------------------------------------------------------------- *)
(* C38  Trip deletion touches only the deleted record: the deletion of a   *)
(* trip changes no slot of any other trip, so every slot of a peer that    *)
(* names the owner of the deleted trip keeps its email and its status,     *)
(* matched included.                                                       *)
(* ---------------------------------------------------------------------- *)

\* this step deletes the row of trip t
Deletes(t) == Stored(t) /\ created_at'[t] = NoTime

C38_DeletionTouchesOneRow ==
    [][\A t \in DOMAIN trips :
          Deletes(t) =>
              \A o \in DOMAIN trips \ {t} :
                  /\ trips'[o].match_email = trips[o].match_email
                  /\ trips'[o].match_status = trips[o].match_status]_vars

\* a trip is gone and a stored peer still holds a matched slot for its owner
C38_Witness ==
    \E t \in DOMAIN trips, o \in DOMAIN trips :
        /\ ~Stored(t)
        /\ Stored(o)
        /\ \E i \in matchEmailFields :
              /\ trips[o].match_email[i] = EmailOf[t]
              /\ trips[o].match_status[i] = "matched"

====
